---------------------------- MODULE Spec2Model ----------------------------
(***************************************************************************)
(* Read/write split router of MaxScale: the per-session routing engine of  *)
(* server/modules/routing/readwritesplit/rwsplit_route_stmt.cc.            *)
(*                                                                         *)
(* One router session (ROUTER_CLIENT_SES) with its list of backends is     *)
(* modelled.  The monitor (external) changes the servers' status and lag,  *)
(* the client sends statements (route_single_stmt), the backends reply.    *)
(***************************************************************************)
EXTENDS Integers, Sequences, FiniteSets, TLC

(***************************************************************************)
(* Bounds of the model.                                                    *)
(***************************************************************************)
MaxLag == 2          \* replication lags are NOT_AVAILABLE or 0 .. MaxLag
MaxSescmd == 2       \* at most this many session commands per session

(***************************************************************************)
(* Program constants.                                                      *)
(***************************************************************************)
MAX_RLAG_NOT_AVAILABLE == -1   \* server->rlag when the lag is unknown
MAX_RLAG_UNDEFINED == -2       \* max_rlag argument when no bound applies

NULL == 0                      \* an empty SRWBackend reference
Backends == {1, 2, 3}          \* rses->backends, in list order
NBackends == Cardinality(Backends)

BE_MASTER == "BE_MASTER"
BE_SLAVE == "BE_SLAVE"

NoName == << >>                \* char *name == NULL
\* server()->unique_name of each backend (unique, also ignoring case)
unique_name == << <<"s", "a">>, <<"S", "B">>, <<"s", "c">> >>

VARIABLES
    status,             \* server()->status of each backend: its replication role
    rlag,               \* server()->rlag
    depth,              \* server()->depth: depth in the replication tree
    cval,               \* the value the selection criterion compares
    in_use,             \* Backend::in_use()
    active,             \* Backend::is_active()
    queue,              \* Backend's session command list (positions)
    reply_state,        \* Backend::get_reply_state()
    current_master,     \* rses->current_master
    target_node,        \* rses->target_node
    sescmd_count,       \* rses->sescmd_count
    expected_responses, \* rses->expected_responses
    sent_sescmd,        \* rses->sent_sescmd
    sescmd_list,        \* rses->sescmd_list
    sescmd_responses,   \* rses->sescmd_responses (positions with a stored reply)
    load_data_state,    \* rses->load_data_state
    load_data_sent,     \* rses->rses_load_data_sent
    connection_keepalive, \* inst->rwsplit_config.connection_keepalive (seconds)
    hkheartbeat,        \* the housekeeper's clock, in tenths of a second
    last_read,          \* dcb()->last_read of each backend
    stats,              \* the statistics counters the workers add to
    config,             \* rses->rses_config
    trx,                \* the session's transaction state (session-layer tracker)
    errno,              \* the thread's errno (nonzero after a failed libc call)
    call,               \* the position of a call of get_target_backend in progress
    filter,             \* the RegexHintFilter instance and its filter sessions
    client,             \* what the client has been sent (observer)
    last                \* the last operation and its outcome (observer)

vars == << status, rlag, depth, cval, in_use, active, queue, reply_state,
           current_master, target_node, sescmd_count, expected_responses,
           sent_sescmd, sescmd_list, sescmd_responses, load_data_state,
           load_data_sent, connection_keepalive, hkheartbeat, last_read, stats,
           config, trx, errno, call, filter, client, last >>

roster == << status, rlag, depth, cval, in_use, active >>
session == << queue, reply_state, current_master, target_node, sescmd_count,
              expected_responses, sent_sescmd, sescmd_list, sescmd_responses,
              load_data_state, load_data_sent, config, trx, errno, call,
              filter, client, connection_keepalive, hkheartbeat, last_read,
              stats >>

clock == << connection_keepalive, hkheartbeat, last_read, stats >>

(***************************************************************************)
(* Server status macros and libc helpers.                                  *)
(***************************************************************************)
Roles == {"master", "slave", "relay", "down"}

SERVER_IS_MASTER(b) == status[b] = "master"
SERVER_IS_SLAVE(b) == status[b] = "slave"
SERVER_IS_RELAY_SERVER(b) == status[b] = "relay"

tolower(c) ==
    CASE c = "A" -> "a"
      [] c = "B" -> "b"
      [] c = "C" -> "c"
      [] c = "S" -> "s"
      [] OTHER -> c

\* strcasecmp(s, t) == 0
strcasecmp_eq(s, t) ==
    /\ Len(s) = Len(t)
    /\ \A i \in 1..Len(s) : tolower(s[i]) = tolower(t[i])

session_trx_is_read_only == trx \in {"ro", "ro_ending"}
session_trx_is_active == trx \in {"active", "ending", "ro", "ro_ending"}
session_trx_is_ending == trx \in {"ending", "ro_ending"}

(***************************************************************************)
(* Backend selection.                                                      *)
(***************************************************************************)
\* criteria_cmpfun[sc](cand, new): the configured criterion's comparison
criteria_cmpfun(a, b) == cval[a] - cval[b]

\* variant that lets the later of two equal backends win
check_candidate_bref_last(cand, new_bref) ==
    IF new_bref = NULL THEN cand
    ELSE IF cand = NULL \/ criteria_cmpfun(cand, new_bref) >= 0 THEN new_bref
    ELSE cand

check_candidate_bref(cand, new_bref) ==
    IF new_bref = NULL THEN cand
    ELSE IF cand = NULL \/ criteria_cmpfun(cand, new_bref) > 0 THEN new_bref
    ELSE cand

\* one iteration of get_root_master_bref's loop
root_master_step(candidate, b) ==
    IF /\ in_use[b]
       /\ SERVER_IS_MASTER(b)
       /\ (candidate = NULL \/ depth[b] < depth[candidate])
    THEN b
    ELSE candidate

RECURSIVE root_master_scan(_, _)
root_master_scan(k, candidate) ==
    IF k > NBackends THEN candidate
    ELSE root_master_scan(k + 1, root_master_step(candidate, k))

get_root_master_bref == root_master_scan(1, NULL)

\* "max_rlag == MAX_RLAG_UNDEFINED || (rlag != MAX_RLAG_NOT_AVAILABLE && rlag <= max_rlag)"
lag_allows(b, max_rlag) ==
    \/ max_rlag = MAX_RLAG_UNDEFINED
    \/ (rlag[b] # MAX_RLAG_NOT_AVAILABLE /\ rlag[b] <= max_rlag)

\* one iteration of the BE_SLAVE loop of get_target_backend
\* variant of the loop body without the replacement of a master candidate
slave_step_keep_master(candidate, b, max_rlag) ==
    IF ~in_use[b] \/ ~active[b] \/ (~SERVER_IS_MASTER(b) /\ ~SERVER_IS_SLAVE(b))
    THEN candidate
    ELSE IF candidate = NULL
    THEN IF SERVER_IS_MASTER(b) /\ b = current_master THEN b
         ELSE IF lag_allows(b, max_rlag) THEN b
         ELSE candidate
    ELSE IF SERVER_IS_SLAVE(b) \/ (config.master_accept_reads /\ SERVER_IS_MASTER(b))
    THEN IF lag_allows(b, max_rlag)
         THEN check_candidate_bref(candidate, b)
         ELSE candidate
    ELSE candidate

slave_step(candidate, b, max_rlag) ==
    IF ~in_use[b] \/ ~active[b] \/ (~SERVER_IS_MASTER(b) /\ ~SERVER_IS_SLAVE(b))
    THEN candidate
    ELSE IF candidate = NULL
    THEN IF SERVER_IS_MASTER(b) /\ b = current_master THEN b
         ELSE IF lag_allows(b, max_rlag) THEN b
         ELSE candidate
    ELSE IF /\ SERVER_IS_MASTER(candidate)
            /\ SERVER_IS_SLAVE(b)
            /\ lag_allows(b, max_rlag)
            /\ ~config.master_accept_reads
    THEN b
    ELSE IF SERVER_IS_SLAVE(b) \/ (config.master_accept_reads /\ SERVER_IS_MASTER(b))
    THEN IF lag_allows(b, max_rlag)
         THEN check_candidate_bref(candidate, b)
         ELSE candidate
    ELSE candidate

RECURSIVE slave_scan(_, _, _)
slave_scan(k, candidate, max_rlag) ==
    IF k > NBackends THEN candidate
    ELSE slave_scan(k + 1, slave_step(candidate, k, max_rlag), max_rlag)

\* the backend the name of a hint selects: the server must be a valid
\* slave, relay server, or master
\* variant that compares the name case-sensitively
name_matches_exact(b, name) ==
    /\ in_use[b] /\ active[b]
    /\ name = unique_name[b]
    /\ (SERVER_IS_SLAVE(b) \/ SERVER_IS_RELAY_SERVER(b) \/ SERVER_IS_MASTER(b))

name_matches(b, name) ==
    /\ in_use[b] /\ active[b]
    /\ strcasecmp_eq(name, unique_name[b])
    /\ (SERVER_IS_SLAVE(b) \/ SERVER_IS_RELAY_SERVER(b) \/ SERVER_IS_MASTER(b))

RECURSIVE named_scan(_, _)
named_scan(k, name) ==
    IF k > NBackends THEN NULL
    ELSE IF name_matches(k, name) THEN k
    ELSE named_scan(k + 1, name)

\* the BE_SLAVE branch
slave_branch(max_rlag) ==
    LET candidate == slave_scan(1, NULL, max_rlag)
    IN  [succp |-> candidate # NULL, target |-> candidate]

\* variant of the BE_MASTER branch that trusts the status the search saw
master_branch_stale(master_bref, still_master) ==
    IF master_bref # NULL /\ active[master_bref] /\ in_use[master_bref]
    THEN [succp |-> TRUE, target |-> master_bref]
    ELSE [succp |-> FALSE, target |-> NULL]

\* the BE_MASTER branch; still_master is the value of SERVER_IS_MASTER on the
\* status copied after the root master was found
master_branch(master_bref, still_master) ==
    IF master_bref # NULL /\ active[master_bref] /\ in_use[master_bref] /\ still_master
    THEN [succp |-> TRUE, target |-> master_bref]
    ELSE [succp |-> FALSE, target |-> NULL]

\* get_target_backend(rses, btype, name, max_rlag, target) when the session's
\* target_node is tn and the transaction state is tr: the result and the
\* target reference (NULL when it is left unassigned)
\* variant without the target_node shortcut
get_target_backend_unpinned(tn, tr, btype, name, max_rlag, still_master) ==
    LET master_bref == get_root_master_bref
        named == IF name # NoName THEN named_scan(1, name) ELSE NULL
    IN  IF named # NULL THEN [succp |-> TRUE, target |-> named]
        ELSE IF name # NoName \/ btype = BE_SLAVE THEN slave_branch(max_rlag)
        ELSE master_branch(master_bref, still_master)

get_target_backend_at(tn, tr, btype, name, max_rlag, still_master) ==
    IF tn # NULL /\ tr \in {"ro", "ro_ending"}
    THEN [succp |-> TRUE, target |-> tn]
    ELSE LET master_bref == get_root_master_bref
             named == IF name # NoName THEN named_scan(1, name) ELSE NULL
         IN  IF named # NULL THEN [succp |-> TRUE, target |-> named]
             ELSE IF name # NoName \/ btype = BE_SLAVE THEN slave_branch(max_rlag)
             ELSE master_branch(master_bref, still_master)

\* the status the BE_MASTER branch copies, when the monitor does not run
\* between the two reads
status_unchanged ==
    get_root_master_bref # NULL /\ SERVER_IS_MASTER(get_root_master_bref)

get_target_backend(btype, name, max_rlag) ==
    get_target_backend_at(target_node, trx, btype, name, max_rlag, status_unchanged)

(***************************************************************************)
(* Statements, hints and the route target.                                 *)
(***************************************************************************)
TARGET_UNDEFINED == {}
TARGET_MASTER == {"MASTER"}
TARGET_SLAVE == {"SLAVE"}
TARGET_NAMED_SERVER == {"NAMED_SERVER"}
TARGET_ALL == {"ALL"}
TARGET_RLAG_MAX == {"RLAG_MAX"}

TARGET_IS_MASTER(t) == "MASTER" \in t
TARGET_IS_SLAVE(t) == "SLAVE" \in t
TARGET_IS_NAMED_SERVER(t) == "NAMED_SERVER" \in t
TARGET_IS_ALL(t) == "ALL" \in t
TARGET_IS_RLAG_MAX(t) == "RLAG_MAX" \in t

\* qc_query_is_type(qtype, type), the query type being a set of flags
qc_query_is_type(qtype, type) == type \in qtype

\* strncasecmp(hint->data, "max_slave_replication_lag", ...) == 0
is_rlag_parameter(hint) ==
    hint.type = "HINT_PARAMETER" /\ hint.data = "max_slave_replication_lag"

\* variant of the loop body in which route-to-slave keeps the other bits
apply_hint_keep(target, hint) ==
    IF hint.type = "HINT_ROUTE_TO_NAMED_SERVER" THEN target \cup TARGET_NAMED_SERVER
    ELSE IF is_rlag_parameter(hint) THEN target \cup TARGET_RLAG_MAX
    ELSE IF hint.type = "HINT_ROUTE_TO_SLAVE"
    THEN (target \ {"MASTER", "ALL"}) \cup TARGET_SLAVE
    ELSE target

\* one iteration of the hint loop of get_route_target
apply_hint(target, hint) ==
    IF hint.type = "HINT_ROUTE_TO_NAMED_SERVER" THEN target \cup TARGET_NAMED_SERVER
    ELSE IF is_rlag_parameter(hint) THEN target \cup TARGET_RLAG_MAX
    ELSE IF hint.type = "HINT_ROUTE_TO_SLAVE" THEN TARGET_SLAVE
    ELSE target

\* variant of the hint loop that goes on after a route-to-master hint
RECURSIVE process_hints_no_break(_, _)
process_hints_no_break(target, hints) ==
    IF hints = << >> THEN target
    ELSE IF Head(hints).type = "HINT_ROUTE_TO_MASTER"
    THEN process_hints_no_break(TARGET_MASTER, Tail(hints))
    ELSE process_hints_no_break(apply_hint(target, Head(hints)), Tail(hints))

RECURSIVE process_hints(_, _)
process_hints(target, hints) ==
    IF hints = << >> THEN target
    ELSE IF Head(hints).type = "HINT_ROUTE_TO_MASTER" THEN TARGET_MASTER
    ELSE process_hints(apply_hint(target, Head(hints)), Tail(hints))

\* variant of the read flavours without SHOW TABLES
ReadFlavoursNoShow ==
    {"READ", "USERVAR_READ", "SYSVAR_READ", "GSYSVAR_READ"}

ReadFlavours ==
    {"READ", "SHOW_TABLES", "USERVAR_READ", "SYSVAR_READ", "GSYSVAR_READ"}

\* variant of the rules without the one for read-only transactions
rule_target_no_ro(tn, tr, lds, qtype) ==
    LET trx_active == tr \in {"active", "ending", "ro", "ro_ending"}
        load_active == lds # "INACTIVE"
        use_sql_variables_in == config.use_sql_variables_in
    IN  IF tn # NULL /\ tn = current_master THEN TARGET_MASTER
        ELSE IF /\ ~load_active
                /\ \/ qc_query_is_type(qtype, "SESSION_WRITE")
                   \/ (use_sql_variables_in = "TYPE_ALL"
                       /\ qc_query_is_type(qtype, "USERVAR_WRITE"))
                   \/ qc_query_is_type(qtype, "GSYSVAR_WRITE")
                   \/ qc_query_is_type(qtype, "ENABLE_AUTOCOMMIT")
                   \/ qc_query_is_type(qtype, "DISABLE_AUTOCOMMIT")
        THEN (IF /\ qc_query_is_type(qtype, "READ")
                 /\ ~(qc_query_is_type(qtype, "PREPARE_STMT")
                      \/ qc_query_is_type(qtype, "PREPARE_NAMED_STMT"))
              THEN TARGET_MASTER
              ELSE TARGET_UNDEFINED) \cup TARGET_ALL
        ELSE IF /\ ~trx_active /\ ~load_active
                /\ ~qc_query_is_type(qtype, "MASTER_READ")
                /\ ~qc_query_is_type(qtype, "WRITE")
                /\ ~qc_query_is_type(qtype, "PREPARE_STMT")
                /\ ~qc_query_is_type(qtype, "PREPARE_NAMED_STMT")
                /\ qtype \cap ReadFlavours # {}
        THEN LET t == IF qc_query_is_type(qtype, "USERVAR_READ")
                      THEN (IF use_sql_variables_in = "TYPE_ALL"
                            THEN TARGET_SLAVE ELSE TARGET_UNDEFINED)
                      ELSE IF qtype \cap (ReadFlavours \ {"USERVAR_READ"}) # {}
                      THEN TARGET_SLAVE
                      ELSE TARGET_UNDEFINED
             IN  IF t \cap {"ALL", "SLAVE", "MASTER"} = {} THEN TARGET_MASTER ELSE t
        ELSE IF FALSE THEN TARGET_SLAVE
        ELSE TARGET_MASTER

\* the target before the hints are applied
rule_target(tn, tr, lds, qtype) ==
    LET trx_active == tr \in {"active", "ending", "ro", "ro_ending"}
        load_active == lds # "INACTIVE"
        use_sql_variables_in == config.use_sql_variables_in
    IN  IF tn # NULL /\ tn = current_master THEN TARGET_MASTER
        ELSE IF /\ ~load_active
                /\ \/ qc_query_is_type(qtype, "SESSION_WRITE")
                   \/ (use_sql_variables_in = "TYPE_ALL"
                       /\ qc_query_is_type(qtype, "USERVAR_WRITE"))
                   \/ qc_query_is_type(qtype, "GSYSVAR_WRITE")
                   \/ qc_query_is_type(qtype, "ENABLE_AUTOCOMMIT")
                   \/ qc_query_is_type(qtype, "DISABLE_AUTOCOMMIT")
        THEN (IF /\ qc_query_is_type(qtype, "READ")
                 /\ ~(qc_query_is_type(qtype, "PREPARE_STMT")
                      \/ qc_query_is_type(qtype, "PREPARE_NAMED_STMT"))
              THEN TARGET_MASTER
              ELSE TARGET_UNDEFINED) \cup TARGET_ALL
        ELSE IF /\ ~trx_active /\ ~load_active
                /\ ~qc_query_is_type(qtype, "MASTER_READ")
                /\ ~qc_query_is_type(qtype, "WRITE")
                /\ ~qc_query_is_type(qtype, "PREPARE_STMT")
                /\ ~qc_query_is_type(qtype, "PREPARE_NAMED_STMT")
                /\ qtype \cap ReadFlavours # {}
        THEN LET t == IF qc_query_is_type(qtype, "USERVAR_READ")
                      THEN (IF use_sql_variables_in = "TYPE_ALL"
                            THEN TARGET_SLAVE ELSE TARGET_UNDEFINED)
                      ELSE IF qtype \cap (ReadFlavours \ {"USERVAR_READ"}) # {}
                      THEN TARGET_SLAVE
                      ELSE TARGET_UNDEFINED
             IN  IF t \cap {"ALL", "SLAVE", "MASTER"} = {} THEN TARGET_MASTER ELSE t
        ELSE IF tr \in {"ro", "ro_ending"} THEN TARGET_SLAVE
        ELSE TARGET_MASTER

\* variant of get_route_target that remembers that a call was made before
get_route_target_sticky(tn, tr, lds, qtype, hints) ==
    IF last.op = "resolve" THEN TARGET_MASTER
    ELSE process_hints(rule_target(tn, tr, lds, qtype), hints)

get_route_target(tn, tr, lds, qtype, hints) ==
    process_hints(rule_target(tn, tr, lds, qtype), hints)

(***************************************************************************)
(* handle_hinted_target, handle_slave_is_target, handle_master_is_target.  *)
(***************************************************************************)
\* strtol(value, NULL, 10) of a string of decimal digits
RECURSIVE strtol(_)
strtol(digits) ==
    IF digits = << >> THEN 0
    ELSE 10 * strtol(SubSeq(digits, 1, Len(digits) - 1)) + digits[Len(digits)]

\* rses_get_max_replication_lag(rses)
rses_get_max_replication_lag == config.max_slave_replication_lag

\* the server name the hint loop of handle_hinted_target ends with
RECURSIVE hinted_name(_, _)
hinted_name(named_server, hints) ==
    IF hints = << >> THEN named_server
    ELSE hinted_name(IF Head(hints).type = "HINT_ROUTE_TO_NAMED_SERVER"
                     THEN Head(hints).data ELSE named_server, Tail(hints))

\* the lag bound one max_slave_replication_lag hint leaves in rlag_max
hint_rlag(rlag_max, hint) ==
    LET val == strtol(hint.value)
    IN  IF val # 0 \/ errno = 0 THEN val ELSE rlag_max

\* the lag bound the hint loop of handle_hinted_target ends with
RECURSIVE hinted_rlag(_, _)
hinted_rlag(rlag_max, hints) ==
    IF hints = << >> THEN rlag_max
    ELSE hinted_rlag(IF /\ Head(hints).type # "HINT_ROUTE_TO_NAMED_SERVER"
                        /\ is_rlag_parameter(Head(hints))
                     THEN hint_rlag(rlag_max, Head(hints))
                     ELSE rlag_max, Tail(hints))

\* the max_rlag argument handle_hinted_target passes to get_target_backend
hinted_rlag_max(hints) ==
    LET rlag_max == hinted_rlag(MAX_RLAG_UNDEFINED, hints)
    IN  IF rlag_max = MAX_RLAG_UNDEFINED
        THEN rses_get_max_replication_lag
        ELSE rlag_max

hinted_btype(route_target) ==
    IF TARGET_IS_SLAVE(route_target) THEN BE_SLAVE ELSE BE_MASTER

handle_hinted_target(tn, tr, hints, route_target, still_master) ==
    get_target_backend_at(tn, tr, hinted_btype(route_target),
                          hinted_name(NoName, hints), hinted_rlag_max(hints),
                          still_master)

handle_slave_is_target(tn, tr) ==
    get_target_backend_at(tn, tr, BE_SLAVE, NoName,
                          rses_get_max_replication_lag, FALSE)

\* handle_master_is_target: the result, the target reference, whether the
\* read-only error was sent and whether current_master is closed
\* variant that accepts any master the selector returns
handle_master_is_target_any(tn, tr, still_master, error_sent) ==
    LET sel == get_target_backend_at(tn, tr, BE_MASTER, NoName,
                                     MAX_RLAG_UNDEFINED, still_master)
    IN  IF sel.succp
        THEN [succp |-> TRUE, target |-> sel.target, error |-> FALSE,
              close |-> FALSE]
        ELSE IF config.master_failure_mode = "RW_ERROR_ON_WRITE"
        THEN [succp |-> error_sent, target |-> sel.target, error |-> error_sent,
              close |-> current_master # NULL /\ in_use[current_master]]
        ELSE [succp |-> FALSE, target |-> sel.target, error |-> FALSE,
              close |-> FALSE]

handle_master_is_target(tn, tr, still_master, error_sent) ==
    LET sel == get_target_backend_at(tn, tr, BE_MASTER, NoName,
                                     MAX_RLAG_UNDEFINED, still_master)
    IN  IF sel.succp /\ sel.target = current_master
        THEN [succp |-> TRUE, target |-> sel.target, error |-> FALSE,
              close |-> FALSE]
        ELSE IF config.master_failure_mode = "RW_ERROR_ON_WRITE"
        THEN [succp |-> error_sent, target |-> sel.target, error |-> error_sent,
              close |-> current_master # NULL /\ in_use[current_master]]
        ELSE [succp |-> FALSE, target |-> sel.target, error |-> FALSE,
              close |-> FALSE]

(***************************************************************************)
(* route_session_write.                                                    *)
(***************************************************************************)
\* command_will_respond(command) and query_creates_reply(cmd)
query_creates_reply(cmd) ==
    /\ cmd # "COM_QUIT"
    /\ cmd # "COM_STMT_SEND_LONG_DATA"
    /\ cmd # "COM_STMT_CLOSE"

command_will_respond(command) == query_creates_reply(command)

Min(S) == CHOOSE x \in S : \A y \in S : x <= y

\* the backends whose queue route_session_write appends the command to
\* variant that ignores in_use
sescmd_targets_all == Backends

sescmd_targets == {b \in Backends : in_use[b]}

\* Backend::execute_session_command on a queue: the front command is
\* written; one that creates no reply is complete at once
queue_after_execute(q) ==
    IF q # << >> /\ ~command_will_respond(Head(q).cmd) THEN Tail(q) ELSE q

\* what rses->expected_responses grows by in route_session_write
\* variant that never counts a response
sescmd_expected_none(expecting_response, nsucc) == 0

sescmd_expected(expecting_response, nsucc) ==
    IF expecting_response THEN nsucc ELSE 0

\* variant of the history bound that is hit one command later
history_bound_exceeded(count) ==
    config.max_sescmd_history > 0 /\ count > config.max_sescmd_history

\* "max_sescmd_history > 0 && sescmd_count >= max_sescmd_history"
history_bound_reached(count) ==
    config.max_sescmd_history > 0 /\ count >= config.max_sescmd_history

\* variant of the history that puts the newest command first
history_after_front(sescmd, disable, bound_hit) ==
    IF disable THEN (IF bound_hit THEN << >> ELSE sescmd_list)
    ELSE << sescmd >> \o sescmd_list

\* variant of the history that is not cleared when the bound is hit
history_after_keep(sescmd, disable, bound_hit) ==
    IF disable THEN sescmd_list ELSE Append(sescmd_list, sescmd)

\* rses->sescmd_list after the call: cleared when the bound is hit, left
\* alone when the history is disabled, else the command is pushed back
history_after(sescmd, disable, bound_hit) ==
    IF disable THEN (IF bound_hit THEN << >> ELSE sescmd_list)
    ELSE Append(sescmd_list, sescmd)

\* sent_sescmd set to the position whatever the number of successes
sent_sescmd_always(id, nsucc) == id

\* if (nsucc) rses->sent_sescmd = id: the position of the last session
\* command that reached a backend
sent_sescmd_after(id, nsucc) == IF nsucc > 0 THEN id ELSE sent_sescmd

\* the fields of the session and of the backends after
\* route_session_write(rses, querybuf, command); okset holds the backends
\* on which the write of execute_session_command succeeds
route_session_write(command, okset) ==
    LET id == sescmd_count
        sescmd == [pos |-> id, cmd |-> command]
        expecting_response == command_will_respond(command)
        appended == sescmd_targets
        queue1 == [b \in Backends |->
                     IF b \in appended THEN Append(queue[b], sescmd) ELSE queue[b]]
        lowest_pos == Min({id} \cup {Head(queue1[b]).pos : b \in appended})
        succ == appended \cap okset
        nsucc == Cardinality(succ)
        bound_hit == history_bound_reached(id + 1)
        disable == config.disable_sescmd_history \/ bound_hit
    IN  [queue |-> [b \in Backends |->
                      IF b \in appended THEN queue_after_execute(queue1[b])
                      ELSE queue1[b]],
         reply_state |-> [b \in Backends |->
                      IF b \in succ /\ command_will_respond(Head(queue1[b]).cmd)
                      THEN "START" ELSE reply_state[b]],
         sescmd_count |-> id + 1,
         expected_responses |->
             expected_responses + sescmd_expected(expecting_response, nsucc),
         config |-> [config EXCEPT
                       !.disable_sescmd_history = disable,
                       !.max_sescmd_history = IF bound_hit THEN 0 ELSE @],
         sescmd_list |-> history_after(sescmd, disable, bound_hit),
         sescmd_responses |->
             IF disable /\ (\E r \in sescmd_responses : r >= lowest_pos)
             THEN {r \in sescmd_responses : r >= lowest_pos}
             ELSE sescmd_responses,
         sent_sescmd |-> sent_sescmd_after(id, nsucc),
         appended |-> appended,
         front |-> [b \in Backends |->
                      IF queue1[b] # << >> THEN Head(queue1[b]).pos ELSE id],
         executed |-> {b \in succ : command_will_respond(Head(queue1[b]).cmd)},
         nsucc |-> nsucc,
         succp |-> nsucc > 0]

(***************************************************************************)
(* The selector applied to a frozen roster.                                *)
(***************************************************************************)
Lags == {MAX_RLAG_NOT_AVAILABLE} \cup (0..MaxLag)
MaxLags == {MAX_RLAG_UNDEFINED} \cup (0..(MaxLag - 1))
HintNames == {NoName, <<"S", "A">>, <<"s", "b">>, <<"s", "x">>}

Pos == 0..(MaxSescmd - 1)      \* the positions of the session commands

\* no call of get_target_backend is in progress
NoCall == [pc |-> "idle"]

\* no filter instance is configured in front of the router
NoFilter == [configured |-> FALSE]

\* the states of one backend that the selector tells apart
BackendKinds ==
    {k \in [role : Roles, lag : Lags, in_use : BOOLEAN, active : BOOLEAN] :
        /\ (~k.in_use => k.active /\ k.lag = MaxLag /\ k.role = "slave")
        /\ (~k.active => k.lag = MaxLag /\ k.role \in {"master", "slave"})
        /\ (k.role \in {"relay", "down"} => k.lag = MaxLag)
        /\ k.lag \in {MAX_RLAG_NOT_AVAILABLE, MaxLag - 1, MaxLag}}

\* a router session before its first statement
RouterDefaults ==
    /\ queue = [b \in Backends |-> << >>]
    /\ reply_state = [b \in Backends |-> "DONE"]
    /\ sescmd_count = 0
    /\ expected_responses = 0
    /\ sent_sescmd = 0
    /\ sescmd_list = << >>
    /\ sescmd_responses = {}
    /\ load_data_state = "INACTIVE"
    /\ load_data_sent = 0
    /\ call = NoCall
    /\ client = [executed |-> [p \in Pos |-> 0],
                 replied |-> [p \in Pos |-> 0],
                 delivered |-> [p \in Pos |-> 0]]
    /\ last = [op |-> "init"]

\* no worker adds to a statistics counter
NoStats == [workers |-> {}]

\* keep-alive pings are off
ClockDefaults ==
    /\ connection_keepalive = 0
    /\ hkheartbeat = 0
    /\ last_read = [b \in Backends |-> 0]
    /\ stats = NoStats

SessionDefaults ==
    /\ RouterDefaults
    /\ ClockDefaults
    /\ filter = NoFilter

InitSel ==
    /\ \E ks \in [Backends -> BackendKinds] :
          /\ status = [b \in Backends |-> ks[b].role]
          /\ rlag = [b \in Backends |-> ks[b].lag]
          /\ in_use = [b \in Backends |-> ks[b].in_use]
          /\ active = [b \in Backends |-> ks[b].active]
    /\ depth = [b \in Backends |-> 0]
    /\ cval = [b \in Backends |-> 0]
    /\ current_master \in Backends \cup {NULL}
    /\ \E tn \in Backends \cup {NULL} :
          /\ tn # NULL => (in_use[tn] /\ active[tn])
          /\ target_node = tn
          /\ trx = IF tn = NULL THEN "inactive" ELSE "ro"
    /\ \E mar \in BOOLEAN :
          config = [master_accept_reads |-> mar]
    /\ errno = 0
    /\ SessionDefaults

SelectCall ==
    /\ last.op = "init"
    /\ \E btype \in {BE_SLAVE, BE_MASTER}, name \in HintNames, max_rlag \in MaxLags :
          last' = [op |-> "select", btype |-> btype, name |-> name,
                   max_rlag |-> max_rlag,
                   res |-> get_target_backend(btype, name, max_rlag)]
    /\ UNCHANGED << roster, session >>

NextSel == SelectCall

SpecSel == InitSel /\ [][NextSel]_vars

(***************************************************************************)
(* get_target_backend(BE_SLAVE) under a selection criterion.               *)
(***************************************************************************)
MaxCval == 2                   \* criterion values are 0 .. MaxCval

InitCrit ==
    /\ status \in [Backends -> {"master", "slave"}]
    /\ rlag \in [Backends -> {0, MaxLag}]
    /\ cval \in [Backends -> 0..MaxCval]
    /\ in_use \in {[b \in Backends |-> b # NBackends \/ u] : u \in BOOLEAN}
    /\ active = [b \in Backends |-> TRUE]
    /\ depth = [b \in Backends |-> 0]
    /\ current_master \in Backends \cup {NULL}
    /\ \E tn \in Backends \cup {NULL} :
          /\ tn # NULL => (in_use[tn] /\ active[tn])
          /\ target_node = tn
          /\ trx = IF tn = NULL THEN "inactive" ELSE "ro"
    /\ \E mar \in BOOLEAN :
          config = [master_accept_reads |-> mar]
    /\ errno = 0
    /\ SessionDefaults

\* get_target_backend(rses, BE_SLAVE, NULL, max_rlag, target)
CritCall ==
    /\ last.op = "init"
    /\ \E max_rlag \in {MAX_RLAG_UNDEFINED, MaxLag - 1} :
          last' = [op |-> "select", btype |-> BE_SLAVE, name |-> NoName,
                   max_rlag |-> max_rlag,
                   res |-> get_target_backend(BE_SLAVE, NoName, max_rlag)]
    /\ UNCHANGED << roster, session >>

NextCrit == CritCall

SpecCrit == InitCrit /\ [][NextCrit]_vars

(***************************************************************************)
(* route_single_stmt.                                                      *)
(***************************************************************************)
is_packet_a_query(packet_type) == packet_type = "COM_QUERY"

\* the transaction states the session tracker can report for the next
\* statement
TrxNext(tr) ==
    CASE tr = "inactive" -> {"inactive", "active", "ro"}
      [] tr = "active" -> {"active", "ending"}
      [] tr = "ro" -> {"ro", "ro_ending"}
      [] tr = "ending" -> {"inactive", "active", "ro"}
      [] tr = "ro_ending" -> {"inactive", "active", "ro"}

\* handle_multi_temp_and_load: the forced node, the query type and the load
\* data state it leaves
multi_stmt_pins(stmt) ==
    (target_node = NULL \/ target_node # current_master) /\ stmt.multi

multi_target_node(stmt) ==
    IF multi_stmt_pins(stmt) /\ current_master # NULL
    THEN current_master
    ELSE target_node

multi_qtype(stmt) ==
    IF multi_stmt_pins(stmt) /\ current_master = NULL
    THEN stmt.qtype \cup {"WRITE"}
    ELSE stmt.qtype

multi_load_data_state(stmt) ==
    IF load_data_state = "ACTIVE" THEN "ACTIVE"
    ELSE IF is_packet_a_query(stmt.command) /\ stmt.op_load THEN "START"
    ELSE load_data_state

\* rses_load_data_sent after handle_multi_temp_and_load: the bytes of the
\* packets received while the load is active, zero when a load starts
multi_load_data_sent(stmt) ==
    IF load_data_state = "ACTIVE" THEN load_data_sent + stmt.length
    ELSE IF is_packet_a_query(stmt.command) /\ stmt.op_load THEN 0
    ELSE load_data_sent

\* the outcome of the branch of route_single_stmt that selects one backend
select_single(tn, tr, hints, route_target, error_sent) ==
    IF TARGET_IS_NAMED_SERVER(route_target) \/ TARGET_IS_RLAG_MAX(route_target)
    THEN handle_hinted_target(tn, tr, hints, route_target, status_unchanged)
            @@ [error |-> FALSE, close |-> FALSE, branch |-> "hinted"]
    ELSE IF TARGET_IS_SLAVE(route_target)
    THEN handle_slave_is_target(tn, tr)
            @@ [error |-> FALSE, close |-> FALSE, branch |-> "slave"]
    ELSE IF TARGET_IS_MASTER(route_target)
    THEN handle_master_is_target(tn, tr, status_unchanged, error_sent)
            @@ [branch |-> "master"]
    ELSE [succp |-> FALSE, target |-> NULL, error |-> FALSE, close |-> FALSE,
          branch |-> "none"]

\* Backend::is_waiting_result: a reply of the backend is outstanding
is_waiting_result(rs, b) == rs[b] # "DONE"

\* the backends the loop of handle_connection_keepalive counts in nserv
keepalive_candidates(target, inuse, rs) ==
    {b \in Backends : inuse[b] /\ b # target /\ ~is_waiting_result(rs, b)}

\* handle_connection_keepalive: the backends that are sent a ping
handle_connection_keepalive(target, inuse, rs) ==
    {b \in keepalive_candidates(target, inuse, rs) :
        hkheartbeat - last_read[b] > connection_keepalive * 10}

\* the end of route_single_stmt: whether handle_connection_keepalive is called
keepalive_called(succp, route_target) ==
    /\ succp
    /\ connection_keepalive # 0
    /\ (TARGET_IS_SLAVE(route_target) \/ TARGET_IS_MASTER(route_target))

\* what the end of route_single_stmt does: whether the keep-alive is run, on
\* which target reference, the backends counted and the backends pinged
keepalive(succp, route_target, target, inuse, rs) ==
    IF keepalive_called(succp, route_target)
    THEN [called |-> TRUE, target |-> target,
          nserv |-> Cardinality(keepalive_candidates(target, inuse, rs)),
          pings |-> handle_connection_keepalive(target, inuse, rs)]
    ELSE [called |-> FALSE, target |-> target, nserv |-> 0, pings |-> {}]

\* handle_got_target: whether the statement expects a response
expects_response(lds, cmd) == lds # "ACTIVE" /\ query_creates_reply(cmd)

\* route_single_stmt(inst, rses, querybuf), called by routeQuery when no
\* response is outstanding; okset holds the backends on which a write of this
\* call succeeds, error_sent tells whether send_readonly_error succeeds
RouteStmt(stmt, tr, okset, error_sent) ==
    LET tn1 == IF stmt.empty THEN target_node ELSE multi_target_node(stmt)
        qtype == IF stmt.empty THEN stmt.qtype ELSE multi_qtype(stmt)
        lds1 == IF stmt.empty THEN "END" ELSE multi_load_data_state(stmt)
    IN
    \E route_target \in {IF stmt.empty THEN TARGET_MASTER
                         ELSE get_route_target(tn1, tr, lds1, qtype, stmt.hints)} :
    IF TARGET_IS_ALL(route_target)
    THEN \* handle_target_is_all
         \E w \in {route_session_write(stmt.command, okset)} :
             /\ sescmd_count < MaxSescmd
             /\ queue' = w.queue
             /\ reply_state' = w.reply_state
             /\ sescmd_count' = w.sescmd_count
             /\ expected_responses' = w.expected_responses
             /\ config' = w.config
             /\ sescmd_list' = w.sescmd_list
             /\ sescmd_responses' = w.sescmd_responses
             /\ sent_sescmd' = w.sent_sescmd
             /\ target_node' = tn1
             /\ load_data_state' = lds1
             /\ load_data_sent' = (IF stmt.empty THEN load_data_sent
                                    ELSE multi_load_data_sent(stmt))
             /\ trx' = tr
             /\ errno' = IF w.nsucc < Cardinality(w.appended) THEN 1 ELSE errno
             /\ client' = [client EXCEPT !.executed = [p \in Pos |->
                             @[p] + Cardinality({b \in w.executed : w.front[b] = p})]]
             /\ last' = [op |-> "route", route_target |-> route_target,
                         branch |-> "all", succp |-> w.succp, target |-> NULL,
                         forwarded |-> {}, written |-> {},
                         appended |-> w.appended, nsucc |-> w.nsucc,
                         responds |-> command_will_respond(stmt.command),
                         error |-> FALSE, closed |-> NULL,
                         qtype |-> stmt.qtype, multi |-> stmt.multi,
                         named |-> NULL, pinned |-> target_node,
                         command |-> stmt.command, okset |-> okset,
                         load |-> lds1, empty |-> stmt.empty,
                         length |-> stmt.length,
                         keepalive |-> keepalive(w.succp, route_target, NULL,
                                                 in_use, w.reply_state)]
             /\ UNCHANGED << roster, current_master, call, filter, clock >>
    ELSE \E sel \in {select_single(tn1, tr, stmt.hints, route_target, error_sent)} :
         LET tn2 == IF /\ sel.branch = "master"
                       /\ ~config.strict_multi_stmt
                       /\ tn1 = current_master
                    THEN NULL ELSE tn1
             got == sel.target # NULL /\ sel.succp
             target == sel.target
             \* handle_got_target
             tn3 == IF got /\ tn2 = NULL /\ tr \in {"ro", "ro_ending"}
                    THEN target ELSE tn2
             response == expects_response(lds1, stmt.command)
             write_ok == target \in okset
             wrote == got /\ write_ok
             tn4 == IF wrote /\ tn3 # NULL /\ tr = "ro_ending" THEN NULL ELSE tn3
         IN  /\ target_node' = tn4
             /\ load_data_state' =
                    IF wrote /\ response
                    THEN (IF lds1 = "START" THEN "ACTIVE"
                          ELSE IF lds1 = "END" THEN "INACTIVE"
                          ELSE lds1)
                    ELSE lds1
             /\ load_data_sent' = (IF stmt.empty THEN load_data_sent
                                    ELSE multi_load_data_sent(stmt))
             /\ reply_state' = IF wrote /\ response
                               THEN [reply_state EXCEPT ![target] = "START"]
                               ELSE reply_state
             /\ expected_responses' = IF wrote /\ response
                                      THEN expected_responses + 1
                                      ELSE expected_responses
             /\ in_use' = IF sel.close
                          THEN [in_use EXCEPT ![current_master] = FALSE]
                          ELSE in_use
             /\ trx' = tr
             /\ errno' = IF (got /\ ~write_ok) \/ (sel.branch = "master"
                                /\ config.master_failure_mode = "RW_ERROR_ON_WRITE"
                                /\ ~sel.error /\ ~got)
                         THEN 1 ELSE errno
             /\ last' = [op |-> "route", route_target |-> route_target,
                         branch |-> sel.branch, succp |-> sel.succp,
                         target |-> target,
                         forwarded |-> IF got THEN {target} ELSE {},
                         written |-> IF wrote THEN {target} ELSE {},
                         appended |-> {}, nsucc |-> 0, responds |-> response,
                         error |-> sel.error,
                         closed |-> IF sel.close THEN current_master ELSE NULL,
                         qtype |-> stmt.qtype, multi |-> stmt.multi,
                         named |-> named_scan(1, hinted_name(NoName, stmt.hints)),
                         pinned |-> target_node,
                         command |-> stmt.command, okset |-> okset,
                         load |-> lds1, empty |-> stmt.empty,
                         length |-> stmt.length,
                         keepalive |-> keepalive(sel.succp, route_target, target,
                                                 in_use', reply_state')]
             /\ UNCHANGED << status, rlag, depth, cval, active, queue,
                             current_master, sescmd_count, sent_sescmd,
                             sescmd_list, sescmd_responses, config, call,
                             client, filter, clock >>

(***************************************************************************)
(* The reply of a backend (clientReply) and the monitor.                   *)
(***************************************************************************)
\* a complete reply of backend b arrives
Reply(b) ==
    /\ reply_state[b] # "DONE"
    /\ LET is_sescmd == queue[b] # << >>
           p == IF is_sescmd THEN Head(queue[b]).pos ELSE sescmd_count
           first == is_sescmd /\ p \notin sescmd_responses
           rest == IF is_sescmd THEN Tail(queue[b]) ELSE queue[b]
           again == is_sescmd /\ rest # << >>
                        /\ command_will_respond(Head(rest).cmd)
       IN  /\ queue' = [queue EXCEPT ![b] =
                           IF is_sescmd THEN queue_after_execute(rest) ELSE @]
           /\ sescmd_responses' = IF first THEN sescmd_responses \cup {p}
                                  ELSE sescmd_responses
           /\ reply_state' = [reply_state EXCEPT ![b] =
                                 IF again THEN "START" ELSE "DONE"]
           /\ expected_responses' =
                 expected_responses - 1 + (IF again THEN 1 ELSE 0)
           /\ client' = IF is_sescmd
                        THEN [client EXCEPT
                                !.replied[p] = @ + 1,
                                !.delivered[p] = @ + (IF first THEN 1 ELSE 0),
                                !.executed = IF again
                                    THEN [@ EXCEPT ![Head(rest).pos] = @ + 1]
                                    ELSE @]
                        ELSE client
           /\ last' = [op |-> "reply", backend |-> b, sescmd |-> is_sescmd,
                       to_client |-> (~is_sescmd \/ first), pos |-> p]
    /\ UNCHANGED << roster, current_master, target_node, sescmd_count,
                    sent_sescmd, sescmd_list, load_data_state, config, trx,
                    errno, call, filter,
                    load_data_sent, clock >>

\* the monitor publishes a new status of one server
Monitor(b, role) ==
    /\ status[b] # role
    /\ status' = [status EXCEPT ![b] = role]
    /\ last' = [op |-> "monitor", backend |-> b]
    /\ UNCHANGED << rlag, depth, cval, in_use, active, session >>

(***************************************************************************)
(* Sessions.                                                               *)
(***************************************************************************)
Modes == {"RW_FAIL_INSTANTLY", "RW_FAIL_ON_WRITE", "RW_ERROR_ON_WRITE"}

Config(mode, mar, max_rlag, history, disabled, strict) ==
    [master_failure_mode |-> mode,
     master_accept_reads |-> mar,
     max_slave_replication_lag |-> max_rlag,
     max_sescmd_history |-> history,
     disable_sescmd_history |-> disabled,
     strict_multi_stmt |-> strict,
     use_sql_variables_in |-> "TYPE_ALL"]

Hint(type, data, value) == [type |-> type, data |-> data, value |-> value]

Stmt(qtype, hints, multi, command) ==
    [qtype |-> qtype, hints |-> hints, multi |-> multi, command |-> command,
     op_load |-> FALSE, empty |-> FALSE, length |-> 5]

\* a session right after it was opened: the roster is a master and two
\* slaves, connected is the set of backends the session opened
OpenSession(connected) ==
    /\ status = [b \in Backends |-> IF b = 1 THEN "master" ELSE "slave"]
    /\ depth = [b \in Backends |-> 0]
    /\ cval = [b \in Backends |-> 0]
    /\ active = [b \in Backends |-> TRUE]
    /\ in_use = [b \in Backends |-> b \in connected]
    /\ current_master = IF 1 \in connected THEN 1 ELSE NULL
    /\ target_node = NULL
    /\ trx = "inactive"
    /\ errno = 0
    /\ SessionDefaults

\* routeQuery: a statement is routed when no response is outstanding
routeQuery(stmt, tr, okset, error_sent) ==
    /\ expected_responses = 0
    /\ RouteStmt(stmt, tr, okset, error_sent)

\* the outcomes of the writes of one call: the backends that accept them
WriteOutcomes == SUBSET {b \in Backends : in_use[b]}

(***************************************************************************)
(* Sessions that issue session commands, reads and writes.                 *)
(***************************************************************************)
SetStmt == Stmt({"SESSION_WRITE"}, << >>, FALSE, "COM_QUERY")
CloseStmt == Stmt({"SESSION_WRITE"}, << >>, FALSE, "COM_STMT_CLOSE")
ReadStmt == Stmt({"READ"}, << >>, FALSE, "COM_QUERY")
WriteStmt == Stmt({"WRITE"}, << >>, FALSE, "COM_QUERY")

InitSes ==
    /\ \E connected \in (SUBSET Backends) \ {{}} : OpenSession(connected)
    /\ rlag = [b \in Backends |-> 0]
    /\ \E history \in {0, MaxSescmd}, disabled \in BOOLEAN :
          config = Config("RW_FAIL_ON_WRITE", FALSE, MAX_RLAG_UNDEFINED,
                          history, disabled, FALSE)

ClientSes ==
    \E stmt \in {SetStmt, CloseStmt, ReadStmt, WriteStmt},
       okset \in WriteOutcomes :
        routeQuery(stmt, trx, okset, TRUE)

BackendReply == \E b \in Backends : Reply(b)

NextSes == ClientSes \/ BackendReply

SpecSes == InitSes /\ [][NextSes]_vars

ClientBcast ==
    \E stmt \in {SetStmt, ReadStmt, WriteStmt},
       okset \in WriteOutcomes :
        routeQuery(stmt, trx, okset, TRUE)

NextBcast == ClientBcast \/ BackendReply

SpecBcast == InitSes /\ [][NextBcast]_vars

(***************************************************************************)
(* Sessions that run read-only transactions.                               *)
(***************************************************************************)
NoHints == << >>
MasterHint == << Hint("HINT_ROUTE_TO_MASTER", NoName, << >>) >>
NamedHint(name) == << Hint("HINT_ROUTE_TO_NAMED_SERVER", name, << >>) >>
RlagHint(digits) == << Hint("HINT_PARAMETER", "max_slave_replication_lag", digits) >>

BeginStmt == Stmt({"BEGIN_TRX"}, NoHints, FALSE, "COM_QUERY")
CommitStmt == Stmt({"COMMIT"}, NoHints, FALSE, "COM_QUERY")
MultiStmt == Stmt({"READ"}, NoHints, TRUE, "COM_QUERY")

TrxStmts ==
    {BeginStmt, CommitStmt, ReadStmt, SetStmt, MultiStmt,
     Stmt({"READ"}, MasterHint, FALSE, "COM_QUERY"),
     Stmt({"READ"}, NamedHint(<<"s", "c">>), FALSE, "COM_QUERY")}

\* the writes of one call succeed on every backend
AllSucceed == {b \in Backends : in_use[b]}

InitTrx ==
    /\ OpenSession(Backends)
    /\ rlag = [b \in Backends |-> 0]
    /\ \E mode \in Modes, strict \in BOOLEAN :
          config = Config(mode, FALSE, MAX_RLAG_UNDEFINED, 0, FALSE, strict)

ClientTrx ==
    \E stmt \in TrxStmts, tr \in TrxNext(trx) :
        routeQuery(stmt, tr, AllSucceed, TRUE)

NextTrx == ClientTrx \/ BackendReply

SpecTrx == InitTrx /\ [][NextTrx]_vars

(***************************************************************************)
(* Sessions whose servers change role while statements are routed.         *)
(***************************************************************************)
MasterReadStmt == Stmt({"READ", "MASTER_READ"}, NoHints, FALSE, "COM_QUERY")

RouteStmts ==
    {ReadStmt, WriteStmt, MasterReadStmt,
     Stmt({"WRITE"}, NamedHint(<<"s", "x">>), FALSE, "COM_QUERY"),
     Stmt({"WRITE"}, NamedHint(<<"s", "c">>), FALSE, "COM_QUERY"),
     Stmt({"WRITE"}, RlagHint(<<1>>), FALSE, "COM_QUERY")}

\* transactions that are not read-only
TrxNextRW(tr) == TrxNext(tr) \ {"ro", "ro_ending"}

InitRoute ==
    /\ OpenSession(Backends)
    /\ \E lag \in {0, MaxLag} : rlag = [b \in Backends |-> IF b = 2 THEN lag ELSE 0]
    /\ \E mode \in Modes, max_rlag \in {MAX_RLAG_UNDEFINED, MaxLag - 1} :
          config = Config(mode, FALSE, max_rlag, 0, FALSE, FALSE)

ClientRoute ==
    \E stmt \in RouteStmts, tr \in TrxNextRW(trx), error_sent \in BOOLEAN :
        routeQuery(stmt, tr, AllSucceed, error_sent)

MonitorTick == \E b \in Backends, role \in {"master", "slave", "down"} : Monitor(b, role)

NextRoute == ClientRoute \/ BackendReply \/ MonitorTick

SpecRoute == InitRoute /\ [][NextRoute]_vars

(***************************************************************************)
(* Hinted reads on a frozen roster.                                        *)
(***************************************************************************)
HintChains ==
    {NoHints, RlagHint(<<0>>), RlagHint(<<1>>), RlagHint(<<1, 0>>),
     RlagHint(<<1>>) \o RlagHint(<<0>>),
     NamedHint(<<"s", "x">>) \o RlagHint(<<0>>),
     NamedHint(<<"S", "b">>)}

\* a backend that is in use and active, as the hinted reads see it
HintKinds == [role : {"master", "slave"},
              lag : {MAX_RLAG_NOT_AVAILABLE, MaxLag - 1, MaxLag}]

InitHint ==
    /\ \E ks \in [Backends -> HintKinds] :
          /\ status = [b \in Backends |-> ks[b].role]
          /\ rlag = [b \in Backends |-> ks[b].lag]
    /\ in_use = [b \in Backends |-> TRUE]
    /\ active = [b \in Backends |-> TRUE]
    /\ depth = [b \in Backends |-> 0]
    /\ cval = [b \in Backends |-> 0]
    /\ current_master \in Backends \cup {NULL}
    /\ target_node = NULL
    /\ trx = "inactive"
    /\ \E mar \in BOOLEAN, max_rlag \in {MAX_RLAG_UNDEFINED, MaxLag - 1} :
          config = Config("RW_FAIL_ON_WRITE", mar, max_rlag, 0, FALSE, FALSE)
    /\ errno \in {0, 1}
    /\ SessionDefaults

\* a read outside a transaction with the hints of the chain: the target
\* get_route_target resolves and the backend the handler selects
HintedCall ==
    /\ last.op = "init"
    /\ \E hints \in HintChains :
          LET route_target == get_route_target(target_node, trx, load_data_state,
                                               {"READ"}, hints)
          IN  last' = [op |-> "hinted", hints |-> hints,
                       route_target |-> route_target,
                       res |-> select_single(target_node, trx, hints,
                                             route_target, TRUE)]
    /\ UNCHANGED << roster, session >>

NextHint == HintedCall

SpecHint == InitHint /\ [][NextHint]_vars

(***************************************************************************)
(* get_target_backend(BE_MASTER), read by read, while the monitor runs.    *)
(***************************************************************************)
MaxDepth == 1                  \* replication depths are 0 .. MaxDepth

InitMaster ==
    /\ status \in [Backends -> {"master", "slave"}]
    /\ depth \in [Backends -> 0..MaxDepth]
    /\ in_use \in [Backends -> BOOLEAN]
    /\ active \in [Backends -> BOOLEAN]
    /\ rlag = [b \in Backends |-> 0]
    /\ cval = [b \in Backends |-> 0]
    /\ current_master = NULL
    /\ target_node = NULL
    /\ trx = "inactive"
    /\ config = Config("RW_FAIL_ON_WRITE", FALSE, MAX_RLAG_UNDEFINED, 0, FALSE, FALSE)
    /\ errno = 0
    /\ SessionDefaults

\* get_target_backend(rses, BE_MASTER, NULL, MAX_RLAG_UNDEFINED, target) is
\* entered: no backend is pinned, the search of the root master begins
MasterCall ==
    /\ call.pc = "idle"
    /\ ~(target_node # NULL /\ session_trx_is_read_only)
    /\ call' = [pc |-> "scan", k |-> 1, candidate |-> NULL, seen |-> {}]
    /\ last' = [op |-> "call"]
    /\ UNCHANGED << roster, queue, reply_state, current_master, target_node,
                    sescmd_count, expected_responses, sent_sescmd, sescmd_list,
                    sescmd_responses, load_data_state, config, trx, errno,
                    client, filter,
                    load_data_sent, clock >>

\* one iteration of the loop of get_root_master_bref; seen collects the
\* in-use backends the loop found flagged master
MasterScan ==
    /\ call.pc = "scan"
    /\ call' = [pc |-> IF call.k = NBackends THEN "check" ELSE "scan",
                k |-> call.k + 1,
                candidate |-> root_master_step(call.candidate, call.k),
                seen |-> call.seen \cup
                           (IF in_use[call.k] /\ SERVER_IS_MASTER(call.k)
                            THEN {call.k} ELSE {})]
    /\ last' = [op |-> "scan"]
    /\ UNCHANGED << roster, queue, reply_state, current_master, target_node,
                    sescmd_count, expected_responses, sent_sescmd, sescmd_list,
                    sescmd_responses, load_data_state, config, trx, errno,
                    client, filter,
                    load_data_sent, clock >>

\* the BE_MASTER branch: the status of the root master is copied and tested
MasterReturn ==
    /\ call.pc = "check"
    /\ \E res \in {master_branch(call.candidate,
                                  call.candidate # NULL
                                      /\ SERVER_IS_MASTER(call.candidate))} :
          /\ call' = [pc |-> "done", candidate |-> call.candidate,
                      seen |-> call.seen, res |-> res]
          /\ last' = [op |-> "master", candidate |-> call.candidate, res |-> res]
    /\ UNCHANGED << roster, queue, reply_state, current_master, target_node,
                    sescmd_count, expected_responses, sent_sescmd, sescmd_list,
                    sescmd_responses, load_data_state, config, trx, errno,
                    client, filter,
                    load_data_sent, clock >>

\* the monitor sets or clears the master flag of a server
MasterMonitor == \E b \in Backends, role \in {"master", "slave"} : Monitor(b, role)

NextMaster == MasterCall \/ MasterScan \/ MasterReturn \/ MasterMonitor

SpecMaster == InitMaster /\ [][NextMaster]_vars

(***************************************************************************)
(* get_route_target on every kind of statement and hint chain.             *)
(***************************************************************************)
MaxFlags == 3                  \* a query type has at most MaxFlags flags
MaxHints == 2                  \* a hint chain has at most MaxHints hints

\* the flags of qc_query_type_t that get_route_target tests, and COMMIT for
\* the ones it does not; QUERY_TYPE_UNKNOWN is the empty set of flags
QueryTypeFlags ==
    {"SESSION_WRITE", "USERVAR_WRITE", "GSYSVAR_WRITE", "ENABLE_AUTOCOMMIT",
     "DISABLE_AUTOCOMMIT", "READ", "SHOW_TABLES", "USERVAR_READ",
     "SYSVAR_READ", "GSYSVAR_READ", "WRITE", "MASTER_READ", "PREPARE_STMT",
     "PREPARE_NAMED_STMT", "COMMIT"}

QueryTypes(n) == {q \in SUBSET QueryTypeFlags : Cardinality(q) <= n}

\* one hint of every type of HINT_TYPE, HINT_PARAMETER with the known and
\* with an unknown parameter name
TargetHints ==
    {Hint("HINT_ROUTE_TO_MASTER", NoName, << >>),
     Hint("HINT_ROUTE_TO_SLAVE", NoName, << >>),
     Hint("HINT_ROUTE_TO_NAMED_SERVER", <<"s", "b">>, << >>),
     Hint("HINT_ROUTE_TO_UPTODATE_SERVER", NoName, << >>),
     Hint("HINT_ROUTE_TO_ALL", NoName, << >>),
     Hint("HINT_PARAMETER", "max_slave_replication_lag", <<1>>),
     Hint("HINT_PARAMETER", "max_slave_connections", <<1>>)}

TargetChains(n) == UNION {[1..k -> TargetHints] : k \in 0..n}

InitTarget ==
    /\ status = [b \in Backends |-> IF b = 1 THEN "master" ELSE "slave"]
    /\ depth = [b \in Backends |-> 0]
    /\ cval = [b \in Backends |-> 0]
    /\ rlag = [b \in Backends |-> 0]
    /\ active = [b \in Backends |-> TRUE]
    /\ in_use = [b \in Backends |-> TRUE]
    /\ \E pin \in {<<NULL, 1>>, <<1, 1>>, <<2, 1>>, <<NULL, NULL>>} :
          target_node = pin[1] /\ current_master = pin[2]
    /\ trx \in {"inactive", "active", "ending", "ro", "ro_ending"}
    /\ \E usv \in {"TYPE_ALL", "TYPE_MASTER"} :
          config = [Config("RW_FAIL_ON_WRITE", FALSE, MAX_RLAG_UNDEFINED,
                           0, FALSE, FALSE)
                       EXCEPT !.use_sql_variables_in = usv]
    /\ errno = 0
    /\ queue = [b \in Backends |-> << >>]
    /\ reply_state = [b \in Backends |-> "DONE"]
    /\ sescmd_count = 0
    /\ expected_responses = 0
    /\ sent_sescmd = 0
    /\ sescmd_list = << >>
    /\ sescmd_responses = {}
    /\ load_data_state \in {"INACTIVE", "ACTIVE"}
    /\ load_data_sent = 0
    /\ ClockDefaults
    /\ call = NoCall
    /\ filter = NoFilter
    /\ client = [executed |-> [p \in Pos |-> 0],
                 replied |-> [p \in Pos |-> 0],
                 delivered |-> [p \in Pos |-> 0]]
    /\ last = [op |-> "init"]

\* get_route_target(rses, qtype, hint): the n-th call of the session
Resolve(qtype, hints, n) ==
    /\ last' = [op |-> "resolve", qtype |-> qtype, hints |-> hints, n |-> n,
                rule |-> rule_target(target_node, trx, load_data_state, qtype),
                target |-> get_route_target(target_node, trx, load_data_state,
                                            qtype, hints)]
    /\ UNCHANGED << roster, session >>

\* a statement of any type with at most one hint
RuleCall ==
    /\ last.op = "init"
    /\ \E qtype \in QueryTypes(MaxFlags), hints \in TargetChains(1) :
          Resolve(qtype, hints, 1)

\* a statement of a simple type with any hint chain
ChainCall ==
    /\ last.op = "init"
    /\ \E qtype \in QueryTypes(1), hints \in TargetChains(MaxHints) :
          Resolve(qtype, hints, 1)

\* the same statement is resolved once more
ResolveAgain ==
    /\ last.op = "resolve" /\ last.n = 1
    /\ Resolve(last.qtype, last.hints, 2)

NextTarget == RuleCall \/ ChainCall \/ ResolveAgain

SpecTarget == InitTarget /\ [][NextTarget]_vars

(***************************************************************************)
(* Sessions that run into the bound of the session command history.        *)
(***************************************************************************)
MaxHistory == 3                \* max_sescmd_history is at most MaxHistory

\* the writes of one call fail everywhere, succeed on the first backend
\* only, or succeed everywhere
HistOutcomes == {{}, {1}, AllSucceed}

InitHist ==
    /\ \E connected \in {Backends, Backends \ {NBackends}} : OpenSession(connected)
    /\ rlag = [b \in Backends |-> 0]
    /\ \E history \in 0..MaxHistory, disabled \in BOOLEAN :
          config = Config("RW_FAIL_ON_WRITE", FALSE, MAX_RLAG_UNDEFINED,
                          history, disabled, FALSE)

\* route_session_write(rses, querybuf, command); limit is the value
\* max_sescmd_history had when the session was opened
HistWrite ==
    /\ sescmd_count <= MaxHistory
    /\ \E command \in {"COM_QUERY", "COM_STMT_CLOSE"}, okset \in HistOutcomes :
       \E w \in {route_session_write(command, okset)} :
          /\ queue' = w.queue
          /\ reply_state' = w.reply_state
          /\ sescmd_count' = w.sescmd_count
          /\ expected_responses' = w.expected_responses
          /\ config' = w.config
          /\ sescmd_list' = w.sescmd_list
          /\ sescmd_responses' = w.sescmd_responses
          /\ sent_sescmd' = w.sent_sescmd
          /\ last' = [op |-> "session_write", id |-> sescmd_count,
                      command |-> command, okset |-> okset,
                      nsucc |-> w.nsucc, succp |-> w.succp,
                      limit |-> IF last.op = "init"
                                THEN config.max_sescmd_history ELSE last.limit]
    /\ UNCHANGED << roster, current_master, target_node, load_data_state, trx,
                    errno, call, client, filter,
                    load_data_sent, clock >>

NextHist == HistWrite

SpecHist == InitHist /\ [][NextHist]_vars

(***************************************************************************)
(* Sessions whose history is enabled and bounded when they are opened.     *)
(***************************************************************************)
InitBound ==
    /\ OpenSession(Backends)
    /\ rlag = [b \in Backends |-> 0]
    /\ config = Config("RW_FAIL_ON_WRITE", FALSE, MAX_RLAG_UNDEFINED,
                       MaxSescmd, FALSE, FALSE)

NextBound == ClientSes \/ BackendReply

SpecBound == InitBound /\ [][NextBound]_vars

(***************************************************************************)
(* ses_bigmem: session writes and reads with disable_sescmd_history=true,  *)
(* every reply complete before the next request.                           *)
(***************************************************************************)
InitBig ==
    /\ \E connected \in (SUBSET Backends) \ {{}} : OpenSession(connected)
    /\ rlag = [b \in Backends |-> 0]
    /\ config = Config("RW_FAIL_ON_WRITE", FALSE, MAX_RLAG_UNDEFINED,
                       0, TRUE, FALSE)

\* try_query: "set autocommit=0", "select 1", "set autocommit=1", "select 2"
ClientBig ==
    \E stmt \in {Stmt({"SESSION_WRITE", "DISABLE_AUTOCOMMIT"}, NoHints, FALSE, "COM_QUERY"),
                  Stmt({"SESSION_WRITE", "ENABLE_AUTOCOMMIT"}, NoHints, FALSE, "COM_QUERY"),
                  ReadStmt} :
        routeQuery(stmt, trx, AllSucceed, TRUE)

NextBig == ClientBig \/ BackendReply

SpecBig == InitBig /\ [][NextBig]_vars

(***************************************************************************)
(* Sessions that lose a backend and use it again.                          *)
(***************************************************************************)
\* the connection of a backend is lost: the backend is closed
LoseBackend(b) ==
    /\ in_use[b]
    /\ in_use' = [in_use EXCEPT ![b] = FALSE]
    /\ queue' = [queue EXCEPT ![b] = << >>]
    /\ expected_responses' =
          expected_responses - (IF reply_state[b] # "DONE" THEN 1 ELSE 0)
    /\ reply_state' = [reply_state EXCEPT ![b] = "DONE"]
    /\ current_master' = IF current_master = b THEN NULL ELSE current_master
    /\ last' = [op |-> "lose", backend |-> b, limit |-> config.max_sescmd_history]
    /\ UNCHANGED << status, rlag, depth, cval, active, target_node,
                    sescmd_count, sent_sescmd, sescmd_list, sescmd_responses,
                    load_data_state, config, trx, errno, call, client,
                    filter,
                    load_data_sent, clock >>

\* the backend is connected again: its queue is seeded with the stored
\* session commands and the first one is executed
ReuseBackend(b) ==
    /\ ~in_use[b]
    /\ ~config.disable_sescmd_history
    /\ in_use' = [in_use EXCEPT ![b] = TRUE]
    /\ \E q \in {queue_after_execute(sescmd_list)} :
          /\ queue' = [queue EXCEPT ![b] = q]
          /\ reply_state' = [reply_state EXCEPT ![b] =
                                IF q # << >> THEN "START" ELSE "DONE"]
          /\ expected_responses' =
                expected_responses + (IF q # << >> THEN 1 ELSE 0)
    /\ last' = [op |-> "reuse", backend |-> b, seeded |-> sescmd_list,
                limit |-> config.max_sescmd_history]
    /\ UNCHANGED << status, rlag, depth, cval, active, current_master,
                    target_node, sescmd_count, sent_sescmd, sescmd_list,
                    sescmd_responses, load_data_state, config, trx, errno,
                    call, client, filter,
                    load_data_sent, clock >>

InitReuse ==
    /\ OpenSession(Backends)
    /\ rlag = [b \in Backends |-> 0]
    /\ \E history \in {0, MaxHistory} :
          config = Config("RW_FAIL_ON_WRITE", FALSE, MAX_RLAG_UNDEFINED,
                          history, FALSE, FALSE)

Restart == \E b \in Backends : LoseBackend(b) \/ ReuseBackend(b)

NextReuse == HistWrite \/ Restart

SpecReuse == InitReuse /\ [][NextReuse]_vars

(***************************************************************************)
(* Sessions that run LOAD DATA LOCAL INFILE.                               *)
(***************************************************************************)
MaxLoadBytes == 10             \* the bytes a client sends during one load

\* LOAD DATA LOCAL INFILE ..., a packet of file data, the empty packet
LoadStmt ==
    [Stmt({"WRITE"}, NoHints, FALSE, "COM_QUERY") EXCEPT !.op_load = TRUE]
DataPacket == Stmt({}, NoHints, FALSE, "DATA")
EmptyPacket ==
    [Stmt({}, NoHints, FALSE, "COM_QUERY") EXCEPT !.empty = TRUE, !.length = 4]

\* COM_STMT_SEND_LONG_DATA, classified as a write
LongDataStmt == Stmt({"WRITE"}, NoHints, FALSE, "COM_STMT_SEND_LONG_DATA")

LoadStmts == {LoadStmt, DataPacket, EmptyPacket, ReadStmt, SetStmt, LongDataStmt}

InitLoad ==
    /\ OpenSession(Backends)
    /\ rlag = [b \in Backends |-> 0]
    /\ \E mode \in Modes :
          config = Config(mode, FALSE, MAX_RLAG_UNDEFINED, 0, TRUE, FALSE)

ClientLoad ==
    \E stmt \in LoadStmts, okset \in {{}, AllSucceed} :
        /\ (load_data_state = "ACTIVE" /\ ~stmt.empty)
              => load_data_sent + stmt.length <= MaxLoadBytes
        /\ routeQuery(stmt, trx, okset, TRUE)

NextLoad == ClientLoad \/ BackendReply

SpecLoad == InitLoad /\ [][NextLoad]_vars

(***************************************************************************)
(* Sessions that receive multi-statement packets, with and without a       *)
(* master.                                                                 *)
(***************************************************************************)
MultiStmts ==
    {Stmt(qtype, NoHints, TRUE, "COM_QUERY") :
        qtype \in {{"READ"}, {"WRITE"}, {"SESSION_WRITE"}, {}}}

InitMulti ==
    /\ \E connected \in (SUBSET Backends) \ {{}} : OpenSession(connected)
    /\ rlag = [b \in Backends |-> 0]
    /\ \E mode \in Modes, strict \in BOOLEAN :
          config = Config(mode, FALSE, MAX_RLAG_UNDEFINED, 0, TRUE, strict)

ClientMulti ==
    \E stmt \in MultiStmts \cup {ReadStmt}, tr \in TrxNext(trx) :
        routeQuery(stmt, tr, AllSucceed, TRUE)

NextMulti == ClientMulti \/ BackendReply

SpecMulti == InitMulti /\ [][NextMulti]_vars

(***************************************************************************)
(* The named-server filter (namedserverfilter.cc): a filter session adds   *)
(* routing hints to the packets whose SQL matches a configured regular     *)
(* expression and passes every packet on to the next component.            *)
(***************************************************************************)
MaxPackets == 3                \* the packets a filter instance is sent
FSessions == 1..2              \* the filter sessions of the instance
NO_STRING == "NULL"            \* a null char pointer

\* m_mapping: the regex-to-servers pairs of the instance, in parameter order
m_mapping ==
    << [m_targets |-> << "server1", "server2" >>,
        m_htype |-> "HINT_ROUTE_TO_NAMED_SERVER"],
       [m_targets |-> << "->slave" >>, m_htype |-> "HINT_ROUTE_TO_SLAVE"] >>

\* the 'source' settings of an instance: none, one address, a class C net
SourceHosts ==
    { [set |-> FALSE],
      [set |-> TRUE, m_address |-> "10.0.0.1", m_netmask |-> 32,
       m_ipv4 |-> << 10, 1 >>],
      [set |-> TRUE, m_address |-> "10.0.0.%", m_netmask |-> 24,
       m_ipv4 |-> << 10, 0 >>] }

\* the client connections: the remote address text, the socket address (its
\* first three octets and the last one) and the user name
FilterClients ==
    { [remote |-> r.remote, ip |-> r.ip, user |-> u] :
        r \in { [remote |-> NO_STRING, ip |-> << 10, 1 >>],
                [remote |-> "10.0.0.1", ip |-> << 10, 1 >>],
                [remote |-> "10.0.0.2", ip |-> << 10, 2 >>],
                [remote |-> "11.0.0.1", ip |-> << 11, 1 >>] },
        u \in {NO_STRING, "alice", "bob"} }

\* the outcomes of pcre2_match: a match (>= 0), PCRE2_ERROR_NOMATCH, or
\* another error code
MatchResults == {"match", "nomatch", "error"}

\* the packets a client sends: whether it is COM_QUERY, the outcome of each
\* configured regular expression on its text, the hints it carries already
FilterPackets ==
    [is_sql : BOOLEAN,
     results : [DOMAIN m_mapping -> MatchResults],
     hint : { << >>, << [type |-> "HINT_ROUTE_TO_MASTER", data |-> NO_STRING] >> }]

modutil_is_SQL(packet) == packet.is_sql

\* modutil_extract_SQL accepts every COM_QUERY packet
modutil_extract_SQL(packet) == packet.is_sql

\* hint_create_route puts the new hint in front of the list
hint_create_route(head, type, data) == << [type |-> type, data |-> data] >> \o head

check_source_host(m_source, remote, ip) ==
    IF m_source.m_netmask = 32
    THEN m_source.m_address = remote
    ELSE << ip[1], 0 >> = m_source.m_ipv4

\* find_servers with a search that goes on after a failed match
RECURSIVE find_servers_skip_errors(_, _)
find_servers_skip_errors(results, i) ==
    IF i > Len(m_mapping) THEN [reg_serv |-> NULL, error |-> NULL]
    ELSE IF results[i] = "match" THEN [reg_serv |-> i, error |-> NULL]
    ELSE find_servers_skip_errors(results, i + 1)

\* RegexHintFilter::find_servers from mapping i on: the first mapping whose
\* regular expression matches; a failed match ends the search with NULL
RECURSIVE find_servers(_, _)
find_servers(results, i) ==
    IF i > Len(m_mapping) THEN [reg_serv |-> NULL, error |-> NULL]
    ELSE IF results[i] = "match" THEN [reg_serv |-> i, error |-> NULL]
    ELSE IF results[i] # "nomatch" THEN [reg_serv |-> NULL, error |-> i]
    ELSE find_servers(results, i + 1)

\* the loop of routeQuery over reg_serv->m_targets, from target i on
RECURSIVE add_route_hints(_, _, _)
add_route_hints(hint, reg_serv, i) ==
    IF i > Len(m_mapping[reg_serv].m_targets) THEN hint
    ELSE add_route_hints(hint_create_route(hint, m_mapping[reg_serv].m_htype,
                                           m_mapping[reg_serv].m_targets[i]),
                         reg_serv, i + 1)

\* RegexHintFilter::newSession: the session is active unless the client's
\* address or user fails the instance's 'source' or 'user' setting
newSession_active(c) ==
    LET by_source == IF /\ filter.m_source.set
                        /\ Len(filter.m_source.m_address) > 0
                        /\ c.remote # NO_STRING
                     THEN check_source_host(filter.m_source, c.remote, c.ip)
                     ELSE TRUE
    IN IF filter.m_user # "" /\ c.user # NO_STRING /\ c.user # filter.m_user
       THEN FALSE
       ELSE by_source

FilterNewSession(s, c) ==
    /\ filter.configured
    /\ ~filter.sessions[s].open
    /\ filter' = [filter EXCEPT !.sessions[s] =
                     [open |-> TRUE, m_active |-> newSession_active(c),
                      m_n_diverted |-> 0, m_n_undiverted |-> 0]]
    /\ last' = [op |-> "newSession", session |-> s, client |-> c]
    /\ UNCHANGED << roster, queue, reply_state, current_master, target_node,
                    sescmd_count, expected_responses, sent_sescmd, sescmd_list,
                    sescmd_responses, load_data_state, config, trx, errno,
                    call, client,
                    load_data_sent, clock >>

\* RegexHintFSession::routeQuery; down counts the calls of m_down.routeQuery
FilterRouteQuery(s, packet) ==
    /\ filter.configured
    /\ filter.sessions[s].open
    /\ filter.down < MaxPackets
    /\ \E found \in {IF /\ modutil_is_SQL(packet)
                        /\ filter.sessions[s].m_active
                        /\ modutil_extract_SQL(packet)
                     THEN find_servers(packet.results, 1)
                     ELSE [reg_serv |-> NULL, error |-> NULL, skipped |-> TRUE]} :
          LET searched == "skipped" \notin DOMAIN found
              diverted == IF searched /\ found.reg_serv # NULL THEN 1 ELSE 0
              undiverted == IF searched /\ found.reg_serv = NULL THEN 1 ELSE 0
              out == [packet EXCEPT !.hint =
                         IF diverted = 1
                         THEN add_route_hints(packet.hint, found.reg_serv, 1)
                         ELSE packet.hint]
          IN /\ filter' =
                   [filter EXCEPT
                       !.sessions[s].m_n_diverted = @ + diverted,
                       !.sessions[s].m_n_undiverted = @ + undiverted,
                       !.m_total_diverted = @ + diverted,
                       !.m_total_undiverted = @ + undiverted,
                       !.m_error_printed =
                           [i \in DOMAIN m_mapping |->
                               @[i] \/ (found.error = i)],
                       !.down = @ + 1]
             /\ last' = [op |-> "routeQuery", session |-> s,
                         packet |-> packet, out |-> out]
    /\ UNCHANGED << roster, queue, reply_state, current_master, target_node,
                    sescmd_count, expected_responses, sent_sescmd, sescmd_list,
                    sescmd_responses, load_data_state, config, trx, errno,
                    call, client,
                    load_data_sent, clock >>

InitFilter ==
    /\ status = [b \in Backends |-> IF b = 1 THEN "master" ELSE "slave"]
    /\ rlag = [b \in Backends |-> 0]
    /\ depth = [b \in Backends |-> 0]
    /\ cval = [b \in Backends |-> 0]
    /\ active = [b \in Backends |-> TRUE]
    /\ in_use = [b \in Backends |-> TRUE]
    /\ current_master = 1
    /\ target_node = NULL
    /\ trx = "inactive"
    /\ errno = 0
    /\ RouterDefaults
    /\ ClockDefaults
    /\ config = Config("RW_FAIL_ON_WRITE", FALSE, MAX_RLAG_UNDEFINED,
                       0, FALSE, FALSE)
    /\ \E user \in {"", "alice"}, source \in SourceHosts :
          filter = [configured |-> TRUE, m_user |-> user, m_source |-> source,
                    m_total_diverted |-> 0, m_total_undiverted |-> 0,
                    m_error_printed |-> [i \in DOMAIN m_mapping |-> FALSE],
                    sessions |-> [s \in FSessions |-> [open |-> FALSE]],
                    down |-> 0]

NextFilter ==
    \/ \E s \in FSessions, c \in FilterClients : FilterNewSession(s, c)
    \/ \E s \in FSessions, packet \in FilterPackets : FilterRouteQuery(s, packet)

SpecFilter == InitFilter /\ [][NextFilter]_vars

(***************************************************************************)
(* Sessions of a service with connection_keepalive: the clock advances,    *)
(* backends are read from, statements are routed and pings are sent.       *)
(***************************************************************************)
MaxHeartbeat == 20             \* the last value of hkheartbeat

\* a SELECT that also sets a session variable
VarReadStmt == Stmt({"SESSION_WRITE", "READ"}, NoHints, FALSE, "COM_QUERY")

KeepStmts == {ReadStmt, WriteStmt, SetStmt, VarReadStmt}

InitKeep ==
    /\ \E role \in {"master", "down"} :
          status = [b \in Backends |-> IF b = 1 THEN role ELSE "slave"]
    /\ rlag = [b \in Backends |-> 0]
    /\ depth = [b \in Backends |-> 0]
    /\ cval = [b \in Backends |-> 0]
    /\ active = [b \in Backends |-> TRUE]
    /\ in_use = [b \in Backends |-> TRUE]
    /\ current_master = 1
    /\ target_node = NULL
    /\ trx = "inactive"
    /\ errno = 0
    /\ RouterDefaults
    /\ filter = NoFilter
    /\ \E mode \in Modes :
          config = Config(mode, FALSE, MAX_RLAG_UNDEFINED, 0, TRUE, FALSE)
    /\ connection_keepalive \in {0, 1}
    /\ hkheartbeat = 0
    /\ last_read = [b \in Backends |-> 0]
    /\ stats = NoStats

ClientKeep ==
    \E stmt \in KeepStmts, okset \in {AllSucceed, {1}} :
        routeQuery(stmt, trx, okset, TRUE)

\* a second passes: the housekeeper adds ten heartbeats
Tick ==
    /\ hkheartbeat < MaxHeartbeat
    /\ hkheartbeat' = hkheartbeat + 10
    /\ last' = [op |-> "tick"]
    /\ UNCHANGED << roster, queue, reply_state, current_master, target_node,
                    sescmd_count, expected_responses, sent_sescmd, sescmd_list,
                    sescmd_responses, load_data_state, load_data_sent, config,
                    trx, errno, call, filter, client, connection_keepalive,
                    last_read, stats >>

\* data arrives on the connection of a backend
BackendRead(b) ==
    /\ in_use[b]
    /\ last_read[b] # hkheartbeat
    /\ last_read' = [last_read EXCEPT ![b] = hkheartbeat]
    /\ last' = [op |-> "read", backend |-> b]
    /\ UNCHANGED << roster, queue, reply_state, current_master, target_node,
                    sescmd_count, expected_responses, sent_sescmd, sescmd_list,
                    sescmd_responses, load_data_state, load_data_sent, config,
                    trx, errno, call, filter, client, connection_keepalive,
                    hkheartbeat, stats >>

NextKeep ==
    \/ ClientKeep
    \/ BackendReply
    \/ Tick
    \/ \E b \in Backends : BackendRead(b)

SpecKeep == InitKeep /\ [][NextKeep]_vars

(***************************************************************************)
(* The atomic additions of atomic.cc: the workers of several sessions add  *)
(* to the same counters.  The model's counters have IntBits bits (an int)  *)
(* and Int64Bits bits (an int64_t, a uint64_t) in two's complement.        *)
(***************************************************************************)
IntBits == 3                   \* the width of the model's int
Int64Bits == 4                 \* the width of the model's int64_t and uint64_t
MaxAdds == 2                   \* the additions of one worker
Workers == 1..2

RECURSIVE pow2(_)
pow2(n) == IF n = 0 THEN 1 ELSE 2 * pow2(n - 1)

\* the value of x as a signed and as an unsigned integer of the given width
as_signed(x, bits) == ((x + pow2(bits - 1)) % pow2(bits)) - pow2(bits - 1)
as_unsigned(x, bits) == x % pow2(bits)

SignedValues(bits) == (0 - pow2(bits - 1))..(pow2(bits - 1) - 1)
UnsignedValues(bits) == 0..(pow2(bits) - 1)

\* an addition that returns the value after the addition
add_and_fetch(variable, value) ==
    [ret |-> variable + value, variable |-> variable + value]

\* __sync_fetch_and_add(variable, value), before the conversion to the type
\* of the variable: the value returned and the value stored, in one step
sync_fetch_and_add(variable, value) ==
    [ret |-> variable, variable |-> variable + value]

\* int atomic_add(int *variable, int value)
atomic_add(variable, value) ==
    LET r == sync_fetch_and_add(variable, value)
    IN  [ret |-> as_signed(r.ret, IntBits),
         variable |-> as_signed(r.variable, IntBits)]

\* int64_t atomic_add_int64(int64_t *variable, int64_t value)
atomic_add_int64(variable, value) ==
    LET r == sync_fetch_and_add(variable, value)
    IN  [ret |-> as_signed(r.ret, Int64Bits),
         variable |-> as_signed(r.variable, Int64Bits)]

\* uint64_t atomic_add_uint64(uint64_t *variable, int64_t value)
atomic_add_uint64(variable, value) ==
    LET r == sync_fetch_and_add(variable, as_unsigned(value, Int64Bits))
    IN  [ret |-> as_unsigned(r.ret, Int64Bits),
         variable |-> as_unsigned(r.variable, Int64Bits)]

InitAtomic ==
    /\ status = [b \in Backends |-> IF b = 1 THEN "master" ELSE "slave"]
    /\ rlag = [b \in Backends |-> 0]
    /\ depth = [b \in Backends |-> 0]
    /\ cval = [b \in Backends |-> 0]
    /\ active = [b \in Backends |-> TRUE]
    /\ in_use = [b \in Backends |-> TRUE]
    /\ current_master = 1
    /\ target_node = NULL
    /\ trx = "inactive"
    /\ errno = 0
    /\ RouterDefaults
    /\ filter = NoFilter
    /\ config = Config("RW_FAIL_ON_WRITE", FALSE, MAX_RLAG_UNDEFINED,
                       0, FALSE, FALSE)
    /\ connection_keepalive = 0
    /\ hkheartbeat = 0
    /\ last_read = [b \in Backends |-> 0]
    /\ \E i \in {0, pow2(IntBits - 1) - 1},
          j \in {0, 0 - pow2(Int64Bits - 1)},
          u \in {0, pow2(Int64Bits) - 1} :
          stats = [workers |-> Workers,
                   counter |-> [int |-> i, int64 |-> j, uint64 |-> u],
                   initial |-> [int |-> i, int64 |-> j, uint64 |-> u],
                   added |-> [int |-> 0, int64 |-> 0, uint64 |-> 0],
                   adds |-> [w \in Workers |-> 0]]

\* a worker adds value to one of the counters; added sums up what was added
WorkerAdds(w, kind, value) ==
    /\ w \in stats.workers
    /\ stats.adds[w] < MaxAdds
    /\ \E r \in {CASE kind = "int" -> atomic_add(stats.counter.int, value)
                   [] kind = "int64" -> atomic_add_int64(stats.counter.int64, value)
                   [] kind = "uint64" ->
                          atomic_add_uint64(stats.counter.uint64, value)} :
          /\ stats' = [stats EXCEPT !.counter[kind] = r.variable,
                                    !.added[kind] = @ + value,
                                    !.adds[w] = @ + 1]
          /\ last' = [op |-> "atomic_add", worker |-> w, kind |-> kind,
                      value |-> value, ret |-> r.ret]
    /\ UNCHANGED << roster, queue, reply_state, current_master, target_node,
                    sescmd_count, expected_responses, sent_sescmd, sescmd_list,
                    sescmd_responses, load_data_state, load_data_sent, config,
                    trx, errno, call, filter, client, connection_keepalive,
                    hkheartbeat, last_read >>

NextAtomic ==
    \E w \in Workers, kind \in {"int", "int64", "uint64"}, value \in {1, 2, -1} :
        WorkerAdds(w, kind, value)

SpecAtomic == InitAtomic /\ [][NextAtomic]_vars

(***************************************************************************)
(* Properties of the session-write path.                                   *)
(***************************************************************************)
\* C1: route_session_write appends the new session command to the queue of
\* every backend in use at the time of the call and to no other backend;
\* expected_responses grows by the number of in-use backends on which
\* execute_session_command succeeded when the command expects a response,
\* and by 0 when it does not.
C1_SessionWriteAppends ==
    [][(last'.op = "route" /\ last'.branch = "all") =>
          LET sescmd == [pos |-> sescmd_count, cmd |-> last'.command]
              succeeded == {b \in Backends : in_use[b] /\ b \in last'.okset}
          IN  /\ last'.appended = {b \in Backends : in_use[b]}
              /\ \A b \in Backends :
                    IF in_use[b]
                    THEN \/ queue'[b] = Append(queue[b], sescmd)
                         \/ /\ ~command_will_respond(last'.command)
                            /\ queue[b] = << >>
                            /\ queue'[b] = << >>
                    ELSE queue'[b] = queue[b]
              /\ expected_responses' - expected_responses =
                    IF command_will_respond(last'.command)
                    THEN Cardinality(succeeded)
                    ELSE 0]_vars

\* a session write that expects a response reached some but not all of the
\* in-use backends, while another backend is not in use
C1_Witness ==
    /\ last.op = "route" /\ last.branch = "all"
    /\ command_will_respond(last.command)
    /\ last.nsucc >= 1
    /\ last.nsucc < Cardinality(last.appended)
    /\ last.appended # Backends
    /\ expected_responses = last.nsucc

sent_to(l) == IF l.branch = "all" THEN l.appended \cap l.okset ELSE l.forwarded

master_not_selectable ==
    LET sel == get_target_backend(BE_MASTER, NoName, MAX_RLAG_UNDEFINED)
    IN  ~(sel.succp /\ sel.target = current_master)

\* a step of route_single_stmt that took the branch of handle_master_is_target
\* while the selector could not return current_master
master_failure_step(mode) ==
    /\ last'.op = "route" /\ last'.branch = "master"
    /\ config.master_failure_mode = mode
    /\ master_not_selectable

usable_replicas == {b \in Backends : in_use[b] /\ active[b] /\ SERVER_IS_SLAVE(b)}

\* C4: under error-on-write a statement resolved to PRIMARY when no backend
\* equal to current_master is selectable is forwarded to no backend, the
\* read-only error is sent, route_single_stmt succeeds whenever sending the
\* error succeeded, current_master is closed if it was in use, and a read
\* outside a transaction is still routed to an in-use replica.
C4_ErrorOnWrite ==
    [][/\ master_failure_step("RW_ERROR_ON_WRITE") =>
            /\ sent_to(last') = {}
            /\ last'.succp = last'.error
            /\ current_master # NULL => ~in_use'[current_master]
       /\ (/\ last'.op = "route" /\ last'.branch = "slave"
           /\ config.master_failure_mode = "RW_ERROR_ON_WRITE"
           /\ usable_replicas # {})
            => /\ last'.succp
               /\ last'.forwarded \subseteq usable_replicas
               /\ last'.forwarded # {}]_vars

\* C5: after the master role has moved from current_master to another
\* in-use backend of the session, the next statement resolved to PRIMARY is
\* forwarded to the new master and route_single_stmt succeeds.
C5_SwitchoverSurvives ==
    [][(/\ last'.op = "route" /\ last'.branch = "master"
        /\ current_master # NULL
        /\ ~SERVER_IS_MASTER(current_master)
        /\ get_root_master_bref # NULL
        /\ active[get_root_master_bref])
          => /\ last'.succp
             /\ last'.forwarded = {get_root_master_bref}]_vars

\* the replicas a read may use: in use, active and within the configured
\* replication lag
replicas_within_lag ==
    {b \in usable_replicas :
        \/ config.max_slave_replication_lag = MAX_RLAG_UNDEFINED
        \/ /\ rlag[b] # MAX_RLAG_NOT_AVAILABLE
           /\ rlag[b] <= config.max_slave_replication_lag}

C7_HintedPrimaryEndsOnPrimary ==
    [][(/\ last'.op = "route" /\ last'.branch = "hinted"
        /\ TARGET_IS_MASTER(last'.route_target))
          => IF last'.named # NULL
             THEN last'.forwarded = {last'.named}
             ELSE \A b \in last'.forwarded : SERVER_IS_MASTER(b)]_vars

\* the value of the last max_slave_replication_lag hint of a chain
RECURSIVE hint_value(_, _)
hint_value(n, hints) ==
    IF hints = << >> THEN n
    ELSE hint_value(IF is_rlag_parameter(Head(hints))
                    THEN strtol(Head(hints).value) ELSE n, Tail(hints))

\* the replication lag bound that applies to a statement: the value of its
\* hint, or else the configured bound
applicable_rlag(hints) ==
    hint_value(config.max_slave_replication_lag, hints)

\* the session's current primary
is_current_primary(b) == b = current_master /\ SERVER_IS_MASTER(b)

\* C8: when a maximum replication lag applies (the configured bound, or the
\* value N of a max_slave_replication_lag=N hint, which replaces it), the
\* selection with role = replica and no server name never returns a backend
\* other than the session's current primary whose lag exceeds the bound or
\* is unknown.
C8_LagBoundHonoured ==
    (/\ last.op = "hinted"
     /\ hinted_name(NoName, last.hints) = NoName
     /\ applicable_rlag(last.hints) # MAX_RLAG_UNDEFINED
     /\ last.res.target # NULL
     /\ ~is_current_primary(last.res.target))
       => /\ rlag[last.res.target] # MAX_RLAG_NOT_AVAILABLE
          /\ rlag[last.res.target] <= applicable_rlag(last.hints)

(***************************************************************************)
(* Properties of the selector.                                             *)
(***************************************************************************)
\* a read-only transaction has pinned a backend in target_node
pinned_in_read_only_trx == target_node # NULL /\ session_trx_is_read_only

\* the in-use active replicas within the lag bound max_rlag
qualifying_replicas(max_rlag) ==
    {b \in usable_replicas :
        \/ max_rlag = MAX_RLAG_UNDEFINED
        \/ (rlag[b] # MAX_RLAG_NOT_AVAILABLE /\ rlag[b] <= max_rlag)}

\* the session's current primary can be selected
primary_usable ==
    /\ current_master # NULL
    /\ in_use[current_master] /\ active[current_master]
    /\ SERVER_IS_MASTER(current_master)

\* what C9 says of the result of a selection with role = replica and no name
replica_preferred ==
    /\ last.res.succp <=> last.res.target # NULL
    /\ qualifying_replicas(last.max_rlag) # {}
          => last.res.target \in qualifying_replicas(last.max_rlag)
    /\ (last.res.target # NULL /\ is_current_primary(last.res.target))
          => qualifying_replicas(last.max_rlag) = {}
    /\ last.res.target = NULL
          => (qualifying_replicas(last.max_rlag) = {} /\ ~primary_usable)

\* C9 (amended): with master_accept_reads = false and no backend pinned by a
\* read-only transaction, the selection with role = replica returns a
\* replica whenever an in-use active replica satisfies the lag bound,
\* whatever the position of the primary in the list; it returns the
\* session's current primary only when no such replica exists, and nothing
\* only when neither exists.
C9_ReplicaPreferred ==
    (/\ last.op = "select"
     /\ ~config.master_accept_reads
     /\ last.btype = BE_SLAVE /\ last.name = NoName
     /\ ~pinned_in_read_only_trx)
       => replica_preferred

\* the primary is first in the list, the second backend is a replica that
\* lags too much, and the third, a qualifying replica, is returned
C9_Witness ==
    /\ last.op = "select"
    /\ ~config.master_accept_reads
    /\ last.btype = BE_SLAVE /\ last.name = NoName
    /\ ~pinned_in_read_only_trx
    /\ last.max_rlag # MAX_RLAG_UNDEFINED
    /\ primary_usable /\ current_master = 1
    /\ SERVER_IS_SLAVE(2) /\ in_use[2] /\ active[2]
    /\ 2 \notin qualifying_replicas(last.max_rlag)
    /\ last.res.target = 3
    /\ 3 \in qualifying_replicas(last.max_rlag)

\* C9 as stated, for every selection with role = replica
C9_AsStated ==
    (/\ last.op = "select"
     /\ ~config.master_accept_reads
     /\ last.btype = BE_SLAVE /\ last.name = NoName)
       => replica_preferred

\* the in-use active backends a hint name selects
named_backends(name) ==
    {b \in Backends :
        /\ in_use[b] /\ active[b]
        /\ strcasecmp_eq(name, unique_name[b])
        /\ status[b] \in {"master", "slave", "relay"}}

\* what C10 says of the result of a selection by name on a SLAVE target
named_or_replica ==
    IF named_backends(last.name) # {}
    THEN last.res.succp /\ last.res.target \in named_backends(last.name)
    ELSE last.res = get_target_backend(BE_SLAVE, NoName, last.max_rlag)

\* C10 (amended): when no backend is pinned by a read-only transaction, the
\* selection by a hint's server name on a SLAVE target returns the in-use
\* active backend whose unique name equals the name case-insensitively when
\* it is flagged primary, replica or relay; when there is none it returns
\* exactly what the selection with role = replica and no name returns.
C10_NamedServer ==
    (/\ last.op = "select"
     /\ last.btype = BE_SLAVE /\ last.name # NoName
     /\ ~pinned_in_read_only_trx)
       => named_or_replica

\* a name differing in case selected a relay server although replicas
\* qualify
C10_Witness ==
    /\ last.op = "select"
    /\ last.btype = BE_SLAVE /\ last.name = <<"s", "b">>
    /\ ~pinned_in_read_only_trx
    /\ SERVER_IS_RELAY_SERVER(2)
    /\ last.res.target = 2
    /\ qualifying_replicas(last.max_rlag) # {}

\* C10 as stated, for every selection by name on a SLAVE target
C10_AsStated ==
    (/\ last.op = "select"
     /\ last.btype = BE_SLAVE /\ last.name # NoName)
       => named_or_replica

crit_replicas(max_rlag) ==
    {b \in Backends : in_use[b] /\ active[b] /\ SERVER_IS_SLAVE(b)
                          /\ lag_allows(b, max_rlag)}

\* b has the smallest criterion value of the set and is the earliest with it
least_and_earliest(b, set) ==
    /\ b \in set
    /\ \A q \in set : cval[b] < cval[q] \/ (cval[b] = cval[q] /\ b <= q)

\* C12: when no read-only transaction has pinned a backend and
\* master_accept_reads is false, get_target_backend with role = replica
\* returns, among the qualifying replicas, the one with the smallest
\* selection-criterion value, the earliest in the backend list on equal
\* values; with master_accept_reads true the backend returned still has a
\* value no larger than any qualifying replica's.
C12_LeastCriterionEarliest ==
    (last.op = "select" /\ last.btype = BE_SLAVE /\ last.name = NoName
        /\ ~(target_node # NULL /\ session_trx_is_read_only)
        /\ Cardinality(crit_replicas(last.max_rlag)) >= 2)
    => /\ last.res.succp /\ last.res.target # NULL
       /\ \A q \in crit_replicas(last.max_rlag) :
             cval[last.res.target] <= cval[q]
       /\ ~config.master_accept_reads =>
             least_and_earliest(last.res.target, crit_replicas(last.max_rlag))

\* two replicas qualify with the same smallest value behind a replica with
\* a larger one, and the earlier of the two is returned
C12_Witness ==
    /\ last.op = "select" /\ last.btype = BE_SLAVE
    /\ target_node = NULL /\ ~config.master_accept_reads
    /\ crit_replicas(last.max_rlag) = Backends
    /\ cval[1] > cval[2] /\ cval[2] = cval[3]
    /\ last.res.target = 2

\* the statement of C12 without the two conditions
C12_AsStated ==
    (last.op = "select" /\ last.btype = BE_SLAVE /\ last.name = NoName
        /\ Cardinality(crit_replicas(last.max_rlag)) >= 2)
    => least_and_earliest(last.res.target, crit_replicas(last.max_rlag))

(***************************************************************************)
(* Properties of get_route_target.                                         *)
(***************************************************************************)
\* the statement is resolved by the rules alone: no hints, no load data,
\* target_node not the master
plain_resolve ==
    /\ last.op = "resolve" /\ last.hints = NoHints
    /\ ~(target_node # NULL /\ target_node = current_master)

\* the statement falls under the broadcast rule
broadcast_type(qtype) ==
    \/ qtype \cap {"SESSION_WRITE", "GSYSVAR_WRITE", "ENABLE_AUTOCOMMIT",
                   "DISABLE_AUTOCOMMIT"} # {}
    \/ ("USERVAR_WRITE" \in qtype /\ config.use_sql_variables_in = "TYPE_ALL")

read_not_prepared(qtype) ==
    "READ" \in qtype /\ qtype \cap {"PREPARE_STMT", "PREPARE_NAMED_STMT"} = {}

\* C13: outside load data, target_node not the primary, no hints, a
\* statement of a broadcast type resolves to ALL, unless its type includes
\* READ without a prepare flag: then it resolves to PRIMARY, without the
\* ALL bit that sends it to the session-write path.
C13_BroadcastOrPrimary ==
    (plain_resolve /\ load_data_state = "INACTIVE" /\ broadcast_type(last.qtype))
    => last.target = IF read_not_prepared(last.qtype)
                     THEN TARGET_MASTER ELSE TARGET_ALL

\* the statement has a read flavour and none of the flags that exclude the
\* read rule
read_type(qtype) ==
    /\ qtype \cap {"READ", "SHOW_TABLES", "USERVAR_READ", "SYSVAR_READ",
                   "GSYSVAR_READ"} # {}
    /\ qtype \cap {"WRITE", "MASTER_READ", "PREPARE_STMT", "PREPARE_NAMED_STMT"} = {}
    /\ ~broadcast_type(qtype)

\* C14: with no transaction active, no load data, target_node not the
\* primary and no hints, a statement with a read-flavour type and none of
\* the write, master-read, prepare or broadcast flags resolves to SLAVE,
\* except that one carrying user-var-read resolves to PRIMARY when
\* use_sql_variables_in = primary.
C14_ReadsToSlave ==
    (plain_resolve /\ load_data_state = "INACTIVE" /\ ~session_trx_is_active
        /\ read_type(last.qtype))
    => last.target = IF /\ "USERVAR_READ" \in last.qtype
                        /\ config.use_sql_variables_in = "TYPE_MASTER"
                     THEN TARGET_MASTER ELSE TARGET_SLAVE

\* a read of a user variable that is also a plain read, resolved to the
\* primary because use_sql_variables_in = primary
C14_Witness ==
    /\ plain_resolve /\ load_data_state = "INACTIVE" /\ trx = "inactive"
    /\ last.qtype = {"READ", "USERVAR_READ"}
    /\ config.use_sql_variables_in = "TYPE_MASTER"
    /\ last.target = TARGET_MASTER

\* C15: with no hints and target_node not the primary, a statement outside
\* the broadcast rule that arrives in an active transaction or during load
\* data, or is typed write, master-read, prepare or only unknown, resolves
\* to PRIMARY, unless the transaction is read-only: then to SLAVE.
C15_RestToPrimary ==
    (plain_resolve
        /\ ~(load_data_state = "INACTIVE" /\ broadcast_type(last.qtype))
        /\ \/ session_trx_is_active
           \/ load_data_state # "INACTIVE"
           \/ last.qtype \cap {"WRITE", "MASTER_READ", "PREPARE_STMT",
                               "PREPARE_NAMED_STMT"} # {}
           \/ last.qtype = {})
    => last.target = IF session_trx_is_read_only
                     THEN TARGET_SLAVE ELSE TARGET_MASTER

\* a write inside a read-only transaction resolved to SLAVE
C15_Witness ==
    /\ plain_resolve /\ trx = "ro" /\ load_data_state = "INACTIVE"
    /\ last.qtype = {"WRITE"}
    /\ last.target = TARGET_SLAVE

\* the chain holds a hint of this type
has_hint(hints, type) == \E i \in 1..Len(hints) : hints[i].type = type

modifier_bits(hints, idx) ==
    (IF \E i \in idx : hints[i].type = "HINT_ROUTE_TO_NAMED_SERVER"
     THEN TARGET_NAMED_SERVER ELSE {})
    \cup (IF \E i \in idx : /\ hints[i].type = "HINT_PARAMETER"
                             /\ hints[i].data = "max_slave_replication_lag"
          THEN TARGET_RLAG_MAX ELSE {})

\* the positions of the route-to-replica hints of the chain
slave_hints(hints) ==
    {i \in 1..Len(hints) : hints[i].type = "HINT_ROUTE_TO_SLAVE"}

cursor_behind(b) == queue[b] # << >>

\* C20: once the history has been disabled by the bound, a backend whose
\* session command cursor is behind sescmd_count is never returned by
\* get_target_backend and is never sent a statement.
C20_BehindIsDropped ==
    [][(/\ last'.op = "route" /\ last'.branch # "all"
        /\ config.disable_sescmd_history)
       => /\ last'.target # NULL => ~cursor_behind(last'.target)
          /\ \A b \in last'.forwarded : ~cursor_behind(b)]_vars

\* C21: with disable_sescmd_history = true, when every reply completes
\* before the next request, sescmd_list stays empty and the response map
\* stays smaller than the number of session commands that can be issued: it
\* never holds a reply for every command sent so far.
C21_ResponsesPruned ==
    /\ sescmd_list = << >>
    /\ Cardinality(sescmd_responses) < MaxSescmd

\* the positions of the commands of a list of session commands
positions(list) == [i \in 1..Len(list) |-> list[i].pos]

C28_TrueOnlyIfAllSucceed ==
    [][last'.op = "session_write" =>
          (last'.succp <=>
              /\ {b \in Backends : in_use[b]} # {}
              /\ {b \in Backends : in_use[b]} \subseteq last'.okset)]_vars

(***************************************************************************)
(* Properties of the order of session commands and statements.             *)
(***************************************************************************)
\* C23: a session command is enqueued on every in-use backend within its
\* route_session_write call, hence before any later statement is sent, and
\* handle_got_target forwards a normal statement only to a backend whose
\* session command queue is empty (session_command_count() == 0), also to
\* a backend on which execute_session_command failed earlier.
C23_ForwardOnlyWhenQueueEmpty ==
    [][last'.op = "route" =>
          /\ last'.branch = "all" =>
                last'.appended = {b \in Backends : in_use[b]}
          /\ last'.branch # "all" =>
                \A b \in last'.forwarded : queue[b] = << >>]_vars

(***************************************************************************)
(* Properties of the load data state.                                      *)
(***************************************************************************)
\* C24: load_data_state changes only along INACTIVE -> START -> ACTIVE ->
\* END -> INACTIVE: START is entered only from INACTIVE, ACTIVE only from
\* START, END only from ACTIVE on the empty packet, INACTIVE only from END;
\* an empty packet in a state other than ACTIVE does not lead to END.
\* (last'.load is the state after handle_multi_temp_and_load and the test
\* for the empty packet, load_data_state' the state after the forward.)
C24_LoadDataCycle ==
    [][last'.op = "route" =>
          /\ (last'.load = "START" /\ load_data_state # "START")
                => load_data_state = "INACTIVE"
          /\ (last'.load = "END" /\ load_data_state # "END")
                => (load_data_state = "ACTIVE" /\ last'.empty)
          /\ last'.load \in {load_data_state, "START", "END"}
          /\ load_data_state' # last'.load
                => \/ (last'.load = "START" /\ load_data_state' = "ACTIVE")
                   \/ (last'.load = "END" /\ load_data_state' = "INACTIVE")
          /\ (last'.empty /\ load_data_state # "ACTIVE")
                => (last'.load # "END" /\ load_data_state' # "END")]_vars

(***************************************************************************)
(* Properties of multi-statement packets and of target_node.               *)
(***************************************************************************)
\* C25: a multi-statement packet that arrives when the session has no
\* current primary is never forwarded to a replica or broadcast: whatever
\* its type it is routed as a write and ends on the no-primary path of
\* handle_master_is_target.
C25_MultiWithoutPrimaryFails ==
    [][(last'.op = "route" /\ last'.multi /\ current_master = NULL) =>
          /\ last'.branch = "master"
          /\ last'.forwarded = {}
          /\ last'.appended = {}]_vars

\* C27: in every reachable state, if target_node is set then the session is
\* inside a read-only transaction and the backend target_node refers to is
\* in use.
C27_PinnedOnlyInReadOnlyTrx ==
    target_node # NULL =>
        (session_trx_is_read_only /\ in_use[target_node])

(***************************************************************************)
(* Properties of the response counter.                                     *)
(***************************************************************************)
\* the backends that have not finished a reply
replying == {b \in Backends : reply_state[b] # "DONE"}

\* C26: between two client requests, after any sequence of normal
\* statements, session writes, load data packets and completed replies,
\* expected_responses is >= 0 and equals the number of backends whose
\* reply state is not done.
C26_ExpectedResponsesCount ==
    /\ expected_responses >= 0
    /\ expected_responses = Cardinality(replying)

(***************************************************************************)
(* Properties of the named-server filter.                                  *)
(***************************************************************************)
\* the hints the packet passed downstream carries in front of those it came with
hints_added(packet, out) ==
    {out.hint[i] : i \in 1..(Len(out.hint) - Len(packet.hint))}

\* the hints that route to the targets of mapping m
hints_of(m) ==
    {[type |-> m_mapping[m].m_htype, data |-> m_mapping[m].m_targets[i]] :
        i \in DOMAIN m_mapping[m].m_targets}

\* the outcome of routeQuery when mapping m (NULL: none) is the one selected
routed_by(m) ==
    LET s == last'.session
        packet == last'.packet
        out == last'.out
        before == filter.sessions[s]
        after == filter'.sessions[s]
        d == IF m # NULL THEN 1 ELSE 0
        handled == packet.is_sql /\ before.m_active
    IN /\ filter'.down = filter.down + 1
       /\ out.is_sql = packet.is_sql
       /\ SubSeq(out.hint, Len(out.hint) - Len(packet.hint) + 1, Len(out.hint))
              = packet.hint
       /\ \A o \in FSessions \ {s} : filter'.sessions[o] = filter.sessions[o]
       /\ IF handled
          THEN /\ hints_added(packet, out) = (IF m # NULL THEN hints_of(m) ELSE {})
               /\ after.m_n_diverted = before.m_n_diverted + d
               /\ after.m_n_undiverted = before.m_n_undiverted + (1 - d)
               /\ filter'.m_total_diverted = filter.m_total_diverted + d
               /\ filter'.m_total_undiverted = filter.m_total_undiverted + (1 - d)
          ELSE /\ out.hint = packet.hint
               /\ after = before
               /\ filter'.m_total_diverted = filter.m_total_diverted
               /\ filter'.m_total_undiverted = filter.m_total_undiverted

C30_PositionsCountUp ==
    [][/\ IF last'.op = "session_write"
          THEN /\ last'.id = sescmd_count
               /\ sescmd_count' = sescmd_count + 1
               /\ sent_sescmd' =
                     IF \E b \in Backends : in_use[b] /\ b \in last'.okset
                     THEN sescmd_count
                     ELSE sent_sescmd
          ELSE /\ sescmd_count' = sescmd_count
               /\ sent_sescmd' = sent_sescmd
       /\ \A b \in Backends :
             queue'[b] # << >> => Head(queue'[b]).pos <= sescmd_count']_vars

\* a call made with no backend in use, after earlier calls: the counter went
\* up by one and sent_sescmd kept the position of an earlier command
C30_Witness ==
    /\ last.op = "session_write"
    /\ \A b \in Backends : ~in_use[b]
    /\ last.nsucc = 0
    /\ last.id >= 1
    /\ sescmd_count = last.id + 1
    /\ sent_sescmd < last.id

(***************************************************************************)
(* Properties of the pruning of the stored responses.                      *)
(***************************************************************************)
\* the lowest position among the new command and the next session command
\* of every in-use backend, at the call of route_session_write
lowest_next_position ==
    Min({sescmd_count} \cup
        {Head(queue[b]).pos : b \in {x \in Backends : in_use[x] /\ queue[x] # << >>}})

\* C31: after a route_session_write executed with disable_sescmd_history
\* set, the response map holds no position lower than the minimum, over the
\* in-use backends, of the next session-command position and the position of
\* the new command; pruning again with no session write in between changes
\* nothing.
C31_MapPrunedBelowMinimum ==
    [][(last'.op = "route" /\ last'.branch = "all"
            /\ config'.disable_sescmd_history)
       => /\ \A r \in sescmd_responses' : r >= lowest_next_position
          /\ LET again == {r \in sescmd_responses' : r >= lowest_next_position}
             IN (again # {}) => (again = sescmd_responses')]_vars

(***************************************************************************)
(* Properties of handle_got_target.                                        *)
(***************************************************************************)
\* C32: handle_got_target marks a forwarded statement as expecting a
\* response if and only if load_data_state is not ACTIVE and the command is
\* none of quit, stmt-send-long-data, stmt-close; exactly in that case, and
\* only when the write to the backend succeeded, the reply state of the
\* target goes from done to start and expected_responses grows by one; a
\* packet of the body of a load leaves both unchanged and adds its length to
\* the byte count of the load.
C32_ResponseExpected ==
    [][(last'.op = "route" /\ last'.forwarded # {})
       => LET t == last'.target
              marked == /\ last'.load # "ACTIVE"
                        /\ last'.command \notin {"COM_QUIT",
                                                 "COM_STMT_SEND_LONG_DATA",
                                                 "COM_STMT_CLOSE"}
          IN /\ last'.responds <=> marked
             /\ IF marked /\ last'.written # {}
                THEN /\ reply_state[t] = "DONE"
                     /\ reply_state' = [reply_state EXCEPT ![t] = "START"]
                     /\ expected_responses' = expected_responses + 1
                ELSE /\ reply_state' = reply_state
                     /\ expected_responses' = expected_responses
             /\ (load_data_state = "ACTIVE" /\ ~last'.empty)
                   => /\ reply_state' = reply_state
                      /\ expected_responses' = expected_responses
                      /\ load_data_sent' = load_data_sent + last'.length]_vars

(***************************************************************************)
(* Properties of the keep-alive pings.                                     *)
(***************************************************************************)
\* C33: after a successfully routed PRIMARY or SLAVE statement with
\* connection_keepalive > 0, a ping is sent to exactly the backends that are
\* in use, are not the target of the statement, are not awaiting a result and
\* have been idle for longer than connection_keepalive; no ping is sent after
\* a broadcast (ALL) statement or a failed route.
C33_PingsToIdleOthers ==
    [][last'.op = "route"
       => last'.keepalive.pings =
             (IF /\ last'.succp
                 /\ connection_keepalive > 0
                 /\ last'.branch # "all"
                 /\ ("MASTER" \in last'.route_target \/ "SLAVE" \in last'.route_target)
              THEN {b \in Backends :
                      /\ in_use'[b]
                      /\ b # last'.target
                      /\ reply_state'[b] = "DONE"
                      /\ hkheartbeat - last_read[b] > connection_keepalive * 10}
              ELSE {})]_vars

(***************************************************************************)
(* Properties of the atomic additions.                                     *)
(***************************************************************************)
\* the width of each kind of counter
bits_of(kind) == IF kind = "int" THEN IntBits ELSE Int64Bits

\* C34: atomic_add, atomic_add_int64 and atomic_add_uint64 return the value
\* the variable held before the addition, and no addition of the workers is
\* lost: every counter equals its initial value plus the sum of the values
\* added, modulo 2^width.
C34_NoLostAddition ==
    [][last'.op = "atomic_add"
       => /\ last'.ret = stats.counter[last'.kind]
          /\ \A kind \in {"int", "int64", "uint64"} :
                (stats'.counter[kind] - stats'.initial[kind] - stats'.added[kind])
                    % (2 ^ bits_of(kind)) = 0
          /\ stats'.counter.int \in (0 - 2 ^ (IntBits - 1))..(2 ^ (IntBits - 1) - 1)
          /\ stats'.counter.int64
                \in (0 - 2 ^ (Int64Bits - 1))..(2 ^ (Int64Bits - 1) - 1)
          /\ stats'.counter.uint64 \in 0..(2 ^ Int64Bits - 1)]_vars

\* both workers have added to the int counter, which wrapped around
C34_Witness ==
    /\ last.op = "atomic_add"
    /\ last.kind = "int"
    /\ \A w \in Workers : stats.adds[w] > 0
    /\ stats.added.int > 0
    /\ stats.counter.int < stats.initial.int
    /\ stats.added.int64 = 0 /\ stats.added.uint64 = 0

\* C35: handle_connection_keepalive is only called with a target backend,
\* and the number of backends it considers for a ping is smaller than the
\* number of backends of the session (its two assertions hold), for every
\* master_failure_mode.
C35_KeepaliveAssertions ==
    [][(last'.op = "route" /\ last'.keepalive.called)
       => /\ last'.keepalive.target # NULL
          /\ last'.keepalive.nserv < NBackends]_vars

(***************************************************************************)
(* Properties of the backend a statement is forwarded to.                  *)
(***************************************************************************)
\* C36: every statement route_single_stmt forwards through handle_got_target
\* goes to a backend that is in use at that moment: neither a backend closed
\* by the error-on-write path nor a target_node that is no longer in use is
\* written to.
C36_ForwardedToInUse ==
    [][last'.op = "route" => \A b \in last'.forwarded : in_use'[b]]_vars

\* C37: a statement dispatched on the plain PRIMARY branch of
\* route_single_stmt (no NAMED_SERVER or RLAG_MAX bit) is forwarded only to
\* the backend that is the session's current_master; when the selector
\* returns another backend or none, nothing is forwarded and the
\* master-failure policy applies.
C37_PrimaryBranchToCurrentMaster ==
    [][(last'.op = "route" /\ last'.branch = "master")
       => IF last'.target # NULL /\ last'.target = current_master
          THEN last'.forwarded \subseteq {current_master}
          ELSE last'.forwarded = {}]_vars

(***************************************************************************)
(* Properties of a load whose first statement is not forwarded.            *)
(***************************************************************************)
\* C38: if the LOAD DATA LOCAL INFILE statement itself is not forwarded (no
\* primary selectable, or the write to the backend fails), load_data_state
\* does not remain START, so that no later statement moves the session to
\* ACTIVE and none that expects a reply is forwarded with no response
\* expected.
C38_FailedLoadLeavesStart ==
    [][(/\ last'.op = "route"
        /\ load_data_state = "INACTIVE"
        /\ last'.load = "START"
        /\ last'.written = {})
       => load_data_state' # "START"]_vars

(***************************************************************************)
(* Properties of the pin a multi-statement packet sets.                    *)
(***************************************************************************)
\* the last step routed a multi-statement packet that moved target_node to
\* current_master, and the session is in strict mode
strict_multi_pinned ==
    /\ config.strict_multi_stmt
    /\ last.op = "route" /\ last.multi
    /\ last.pinned # current_master
    /\ current_master # NULL
    /\ target_node = current_master

\* C39: with strict_multi_stmt = true, once a multi-statement packet has
\* pinned target_node to the current primary, the pin stays and every later
\* statement without hints resolves to exactly PRIMARY for the rest of the
\* session; with strict_multi_stmt = false the pin is gone as soon as the
\* PRIMARY dispatch of that packet has run, whether or not routing succeeded.
C39_MultiStatementPin ==
    /\ [](strict_multi_pinned =>
            [](/\ target_node = current_master
               /\ (last.op = "route" /\ last.pinned = current_master)
                     => last.route_target = {"MASTER"}))
    /\ [][(/\ ~config.strict_multi_stmt
           /\ last'.op = "route" /\ last'.multi
           /\ last'.branch = "master")
          => (target_node' = NULL \/ target_node' # current_master)]_vars

\* C40: once disable_sescmd_history is true it stays true and sescmd_list
\* stays empty for the rest of the session, whatever session writes follow;
\* and with max_sescmd_history = N > 0, sescmd_list holds fewer than N
\* entries when route_session_write returns (N the configured bound, both
\* the value the session was opened with and the value left by the call).
C40_DisabledIsFinal ==
    /\ [](config.disable_sescmd_history =>
            [](config.disable_sescmd_history /\ sescmd_list = << >>))
    /\ [][last'.op = "session_write" =>
             /\ last'.limit > 0 => Len(sescmd_list') < last'.limit
             /\ config'.max_sescmd_history > 0
                   => Len(sescmd_list') < config'.max_sescmd_history]_vars

\* the bound of two commands disabled the history and two more session
\* writes followed: the history is still disabled and empty
C40_Witness ==
    /\ last.op = "session_write" /\ last.limit = 2 /\ sescmd_count = 4
    /\ config.disable_sescmd_history /\ config.max_sescmd_history = 0
    /\ sescmd_list = << >>

=============================================================================
